---------------------------- MODULE Spec2Model ----------------------------
(***************************************************************************)
(* A model of the BSA assembler language server's analysis core: the line  *)
(* lexer (server/src/bsa_lex.ts), the statement and expression parser      *)
(* (server/src/bsa_parse.ts) and the document fold parseBsa.               *)
(*                                                                         *)
(* A line of text is a sequence of one-character strings.  Character       *)
(* offsets, token positions and line numbers are 0-based as in the source; *)
(* the k-th character of a line is text[k + 1].                            *)
(***************************************************************************)
EXTENDS Integers, Sequences, FiniteSets, TLC

(***************************************************************************)
(* Values of the source language                                           *)
(***************************************************************************)

\* The JavaScript value undefined where a token carries no normText.
Undefined == <<"undefined">>

\* String.prototype.charAt: the empty string outside the text.
CharAt(text, k) == IF k >= 0 /\ k < Len(text) THEN text[k + 1] ELSE ""

\* String.prototype.substring(a, b), for 0 <= a <= b: an end beyond the
\* length counts as the length.
Substring(text, a, b) == SubSeq(text, a + 1, IF b > Len(text) THEN Len(text) ELSE b)

MinOf(S) == CHOOSE x \in S : \A y \in S : x <= y

(***************************************************************************)
(* Character classes of the regular expressions                            *)
(***************************************************************************)

LowerLetters ==
    <<"a","b","c","d","e","f","g","h","i","j","k","l","m",
      "n","o","p","q","r","s","t","u","v","w","x","y","z">>

UpperLetters ==
    <<"A","B","C","D","E","F","G","H","I","J","K","L","M",
      "N","O","P","Q","R","S","T","U","V","W","X","Y","Z">>

LowerSet == {LowerLetters[i] : i \in DOMAIN LowerLetters}

UpperSet == {UpperLetters[i] : i \in DOMAIN UpperLetters}

UpperToLower ==
    [c \in UpperSet |->
        LowerLetters[CHOOSE i \in DOMAIN UpperLetters : UpperLetters[i] = c]]

\* Case folding of the regular expressions compiled with the i flag.
ToLower(c) == IF c \in UpperSet THEN UpperToLower[c] ELSE c

\* \s
SpaceChars == {" ", "\t"}

\* \d and [0-9]
DigitChars == {"0","1","2","3","4","5","6","7","8","9"}

\* \p{Letter}, restricted to the ASCII letters
LetterChars == LowerSet \cup UpperSet

\* \w
WordChars == LetterChars \cup DigitChars \cup {"_"}

\* [0-9a-f] under the i flag
HexChars == DigitChars \cup {"a","b","c","d","e","f","A","B","C","D","E","F"}

BinChars == {"0","1"}

OctChars == {"0","1","2","3","4","5","6","7"}

\* The number of consecutive characters of class S from offset k on (S*).
RECURSIVE RunLen(_, _, _)
RunLen(text, k, S) ==
    IF k < Len(text) /\ text[k + 1] \in S
    THEN 1 + RunLen(text, k + 1, S)
    ELSE 0

\* \b at offset k: exactly one side is a word character.
WordBoundary(text, k) ==
    (CharAt(text, k - 1) \in WordChars) # (CharAt(text, k) \in WordChars)

(***************************************************************************)
(* The fixed tables of bsa_lex.ts                                          *)
(***************************************************************************)

keywords ==
    <<
     <<"#","i","f">>, <<"#","i","f","d","e","f">>, <<"#","e","l","s","e">>, <<"#","e","n","d","i","f">>,
     <<"#","e","r","r","o","r">>, <<"m","a","c","r","o">>, <<"e","n","d","m","a","c">>, <<".","w","o","r","d">>,
     <<".","b","i","g","w">>, <<".","h","e","x","4">>, <<".","d","e","c","4">>, <<".","w","o","r">>,
     <<".","b","y","t","e">>, <<".","b","y","t">>, <<".","p","e","t">>, <<".","d","i","s","p">>,
     <<".","b","h","e","x">>, <<".","l","i","t","s">>, <<".","q","u","a","d">>, <<".","r","e","a","l">>,
     <<".","r","e","a","l","4">>, <<".","f","i","l","l">>, <<".","b","s","s">>, <<".","s","t","o","r","e">>,
     <<".","c","p","u">>, <<".","b","a","s","e">>, <<".","o","r","g">>, <<".","l","o","a","d">>,
     <<".","i","n","c","l","u","d","e">>, <<".","s","i","z","e">>, <<".","s","k","i">>, <<".","p","a","g">>,
     <<".","n","a","m">>, <<".","s","u","b","t","t","l">>, <<".","e","n","d">>, <<".","c","a","s","e">>,
     <<"!","s","r","c">>, <<"!","a","d","d","r">>, <<"m","o","d","u","l","e">>
    >>

opcodes ==
    <<
     <<"a","d","c">>, <<"a","d","c","q">>, <<"a","n","d">>, <<"a","n","d","q">>, <<"a","s","l">>, <<"a","s","l","q">>,
     <<"a","s","r">>, <<"a","s","r","q">>, <<"a","s","w">>, <<"b","b","r","0">>, <<"b","b","r","1">>, <<"b","b","r","2">>,
     <<"b","b","r","3">>, <<"b","b","r","4">>, <<"b","b","r","5">>, <<"b","b","r","6">>, <<"b","b","r","7">>, <<"b","b","s","0">>,
     <<"b","b","s","1">>, <<"b","b","s","2">>, <<"b","b","s","3">>, <<"b","b","s","4">>, <<"b","b","s","5">>, <<"b","b","s","6">>,
     <<"b","b","s","7">>, <<"b","c","c">>, <<"b","c","s">>, <<"b","e","q">>, <<"b","m","i">>, <<"b","n","e">>,
     <<"b","p","l">>, <<"b","v","c">>, <<"b","v","s">>, <<"b","i","t">>, <<"b","i","t","q">>, <<"b","r","a">>,
     <<"b","r","k">>, <<"b","s","r">>, <<"c","l","c">>, <<"c","l","d">>, <<"c","l","e">>, <<"c","l","i">>,
     <<"c","l","v">>, <<"c","m","p">>, <<"c","m","p","q">>, <<"c","p","x">>, <<"c","p","y">>, <<"c","p","z">>,
     <<"d","e","c">>, <<"d","e","q">>, <<"d","e","w">>, <<"d","e","x">>, <<"d","e","y">>, <<"d","e","z">>,
     <<"e","o","m">>, <<"e","o","r">>, <<"e","o","r","q">>, <<"i","n","c">>, <<"i","n","q">>, <<"i","n","w">>,
     <<"i","n","x">>, <<"i","n","y">>, <<"i","n","z">>, <<"j","m","p">>, <<"j","s","r">>, <<"l","d","a">>,
     <<"l","d","q">>, <<"l","d","x">>, <<"l","d","y">>, <<"l","d","z">>, <<"l","s","r">>, <<"l","s","r","q">>,
     <<"m","a","p">>, <<"n","e","g">>, <<"o","r","a">>, <<"o","r","q">>, <<"p","h","a">>, <<"p","l","a">>,
     <<"p","h","x">>, <<"p","l","x">>, <<"p","h","y">>, <<"p","l","y">>, <<"p","h","z">>, <<"p","l","z">>,
     <<"p","h","p">>, <<"p","h","w">>, <<"p","l","p">>, <<"r","m","b","0">>, <<"r","m","b","1">>, <<"r","m","b","2">>,
     <<"r","m","b","3">>, <<"r","m","b","4">>, <<"r","m","b","5">>, <<"r","m","b","6">>, <<"r","m","b","7">>, <<"r","o","l">>,
     <<"r","o","r">>, <<"r","o","l","q">>, <<"r","o","r","q">>, <<"r","o","w">>, <<"r","t","i">>, <<"r","t","s">>,
     <<"s","b","c">>, <<"s","b","c","q">>, <<"s","e","c">>, <<"s","e","d">>, <<"s","e","e">>, <<"s","e","i">>,
     <<"s","m","b","0">>, <<"s","m","b","1">>, <<"s","m","b","2">>, <<"s","m","b","3">>, <<"s","m","b","4">>, <<"s","m","b","5">>,
     <<"s","m","b","6">>, <<"s","m","b","7">>, <<"s","t","a">>, <<"s","t","q">>, <<"s","t","x">>, <<"s","t","y">>,
     <<"s","t","z">>, <<"t","a","b">>, <<"t","a","x">>, <<"t","x","a">>, <<"t","a","y">>, <<"t","y","a">>,
     <<"t","a","z">>, <<"t","z","a">>, <<"t","b","a">>, <<"t","s","x">>, <<"t","s","y">>, <<"t","r","b">>,
     <<"t","s","b">>, <<"t","x","s">>, <<"t","y","s">>, <<"n","o","p">>, <<"a","u","g">>, <<"b","r","u">>,
     <<"i","n","a">>, <<"d","e","a">>, <<"p","h","d">>, <<"t","c","s">>, <<"p","l","d">>, <<"t","s","a">>,
     <<"t","s","c">>, <<"w","d","m">>, <<"m","v","p">>, <<"p","h","k">>, <<"m","v","n">>, <<"t","c","d">>,
     <<"r","t","l">>, <<"t","d","c">>, <<"p","h","b">>, <<"p","l","b">>, <<"t","y","x">>, <<"w","a","i">>,
     <<"s","t","p">>, <<"s","w","a">>, <<"x","b","a">>, <<"x","c","e">>, <<"l","b","p","l">>, <<"l","b","m","i">>,
     <<"l","b","v","c">>, <<"l","b","v","s">>, <<"l","b","c","c">>, <<"l","b","c","s">>, <<"l","b","n","e">>, <<"l","b","e","q">>,
     <<"l","b","r","a">>, <<"l","b","r","u">>, <<"l","b","s","r">>
    >>

operators ==
    <<
     <<"=","=">>, <<"!","=">>, <<">","=">>, <<"<","=">>, <<">",">">>, <<"<","<">>, <<"&","&">>, <<"|","|">>,
     <<":">>, <<"^">>, <<"<">>, <<">">>, <<"(">>, <<")">>, <<"[">>, <<"]">>,
     <<"+">>, <<"-">>, <<"*">>, <<"/">>, <<"!">>, <<"~">>, <<"&">>, <<"|">>,
     <<"^">>, <<",">>, <<"#">>, <<"=">>
    >>

(***************************************************************************)
(* The sticky patterns: each gives the length of its match at offset k,    *)
(* or -1 when it does not match there.  RegExp.exec with lastIndex beyond  *)
(* the text never matches.                                                 *)
(***************************************************************************)

\* /\s*/y
spacePattern(text, k) ==
    IF k > Len(text) THEN -1 ELSE RunLen(text, k, SpaceChars)

\* /\s*\*(?!\s*=).*/y tested from lastIndex 0
starCommentPattern(text) ==
    LET s == RunLen(text, 0, SpaceChars)
    IN  /\ CharAt(text, s) = "*"
        /\ CharAt(text, s + 1 + RunLen(text, s + 1, SpaceChars)) # "="

\* RegExp(escapeForRegExp(kw) + '\\b', 'iy')
wordPattern(kw, text, k) ==
    IF /\ k + Len(kw) <= Len(text)
       /\ \A i \in 1..Len(kw) : ToLower(text[k + i]) = kw[i]
       /\ WordBoundary(text, k + Len(kw))
    THEN Len(kw)
    ELSE -1

\* RegExp(escapeForRegExp(kw), 'y')
operatorPattern(kw, text, k) ==
    IF /\ k + Len(kw) <= Len(text)
       /\ \A i \in 1..Len(kw) : text[k + i] = kw[i]
    THEN Len(kw)
    ELSE -1

\* /(\*|&|([\p{Letter}_][\w.]*)|(\d+\$))/uy
namePattern(text, k) ==
    LET c == CharAt(text, k)
        d == RunLen(text, k, DigitChars)
    IN  IF k > Len(text) THEN -1
        ELSE IF c = "*" \/ c = "&" THEN 1
        ELSE IF c \in LetterChars \cup {"_"}
             THEN 1 + RunLen(text, k + 1, WordChars \cup {"."})
        ELSE IF d > 0 /\ CharAt(text, k + d) = "$" THEN d + 1
        ELSE -1

\* /((\$[0-9a-f]+)|(%[01]+)|(@[0-7]+)|([0-9]+\.[0-9]*)|(\.[0-9]+)|([0-9]+))/iy
numberPattern(text, k) ==
    LET c == CharAt(text, k)
        d == RunLen(text, k, DigitChars)
    IN  IF k > Len(text) THEN -1
        ELSE IF c = "$" /\ RunLen(text, k + 1, HexChars) > 0
             THEN 1 + RunLen(text, k + 1, HexChars)
        ELSE IF c = "%" /\ RunLen(text, k + 1, BinChars) > 0
             THEN 1 + RunLen(text, k + 1, BinChars)
        ELSE IF c = "@" /\ RunLen(text, k + 1, OctChars) > 0
             THEN 1 + RunLen(text, k + 1, OctChars)
        ELSE IF d > 0 /\ CharAt(text, k + d) = "."
             THEN d + 1 + RunLen(text, k + d + 1, DigitChars)
        ELSE IF c = "." /\ RunLen(text, k + 1, DigitChars) > 0
             THEN 1 + RunLen(text, k + 1, DigitChars)
        ELSE IF d > 0 THEN d
        ELSE -1

(***************************************************************************)
(* class Lexer                                                             *)
(***************************************************************************)

\* new Lexer(text, lineNumber)
Lexer(text, lineNumber) ==
    [text |-> text, lineNumber |-> lineNumber, start |-> 0, end |-> 0,
     tokens |-> <<>>, diagnostics |-> <<>>]

\* Lexer.match, given the match length of the pattern at this.start
match(lx, len) == IF len >= 0 THEN [lx EXCEPT !.end = lx.start + len] ELSE lx

startLex(lx) ==
    LET l1 == [lx EXCEPT !.start = lx.end]
        n  == spacePattern(l1.text, l1.start)
    IN  IF n >= 0 THEN [l1 EXCEPT !.end = l1.start + n, !.start = l1.start + n]
        ELSE l1

\* isActive that never finds the cursor unmoved.
isActiveNever(lx) == FALSE

isActive(lx) == lx.end = lx.start

lexIsDone(lx) == lx.end = Len(lx.text)

addDiagnostic(lx, message, severity) ==
    [lx EXCEPT !.diagnostics = Append(@,
        [severity |-> severity,
         range |-> [start |-> [line |-> lx.lineNumber, character |-> lx.start],
                    end   |-> [line |-> lx.lineNumber, character |-> lx.end]],
         message |-> message])]

addWarning(lx, message) == addDiagnostic(lx, message, "Warning")

addError(lx, message) == addDiagnostic(lx, message, "Error")

addToken(lx, type, normText) ==
    [lx EXCEPT !.tokens = Append(@,
        [type |-> type, lineNumber |-> lx.lineNumber,
         start |-> lx.start, end |-> lx.end, normText |-> normText])]

\* lexStarComment with a pattern that lacks the lookahead: /\s*\*.*/y
lexStarCommentAnyStar(lx) ==
    IF CharAt(lx.text, RunLen(lx.text, 0, SpaceChars)) = "*"
    THEN [lx EXCEPT !.end = Len(lx.text)]
    ELSE lx

lexStarComment(lx) ==
    IF starCommentPattern(lx.text) THEN [lx EXCEPT !.end = Len(lx.text)] ELSE lx

lexLineComment(lx) ==
    IF CharAt(lx.text, lx.start) = ";" THEN [lx EXCEPT !.end = Len(lx.text)] ELSE lx

\* The while loop of lexStringLiteral, from this.end = e on.
RECURSIVE scanString(_, _, _, _)
scanString(text, firstChar, e, stringChars) ==
    IF ~(e < Len(text))
    THEN [end |-> e, sawEndQuote |-> FALSE, stringChars |-> stringChars]
    ELSE IF CharAt(text, e) = firstChar
    THEN [end |-> e + 1, sawEndQuote |-> TRUE, stringChars |-> stringChars]
    ELSE LET e1 == IF CharAt(text, e) = "\\" THEN e + 1 ELSE e
             c  == CharAt(text, e1)
             next == <<e1 + 1, IF c = "" THEN stringChars ELSE Append(stringChars, c)>>
         IN  CHOOSE r \in {scanString(text, firstChar, n[1], n[2]) : n \in {next}} : TRUE

lexStringLiteral(lx) ==
    LET firstChar == CharAt(lx.text, lx.start)
    IN  IF ~isActive(lx) THEN lx
        ELSE IF firstChar = "'" \/ firstChar = "\""
        THEN LET s  == scanString(lx.text, firstChar, lx.end + 1, <<>>)
                 l1 == [lx EXCEPT !.end = s.end]
                 l2 == IF ~s.sawEndQuote
                       THEN addWarning(l1, "Unterminated string literal goes to end of line")
                       ELSE l1
             IN  addToken(l2, "LiteralString", s.stringChars)
        ELSE lx

\* lexKeyword without the capture of the rest of the line (lines 242-246).
lexKeywordOnly(lx) ==
    LET hits == {i \in DOMAIN keywords : wordPattern(keywords[i], lx.text, lx.start) >= 0}
    IN  IF ~isActive(lx) \/ hits = {} THEN lx
        ELSE LET kw == keywords[MinOf(hits)]
             IN  addToken(match(lx, Len(kw)), "Keyword", kw)

lexKeyword(lx) ==
    LET hits == {i \in DOMAIN keywords : wordPattern(keywords[i], lx.text, lx.start) >= 0}
    IN  IF ~isActive(lx) \/ hits = {} THEN lx
        ELSE LET kw == keywords[MinOf(hits)]
                 l1 == addToken(match(lx, Len(kw)), "Keyword", kw)
             IN  IF kw = <<".","b","h","e","x">> \/ kw = <<"#","e","r","r","o","r">>
                 THEN addToken([l1 EXCEPT !.start = l1.end, !.end = Len(l1.text)],
                               "RestOfLine", Undefined)
                 ELSE l1

lexOperator(lx) ==
    LET hits == {i \in DOMAIN operators : operatorPattern(operators[i], lx.text, lx.start) >= 0}
    IN  IF ~isActive(lx) \/ hits = {} THEN lx
        ELSE LET kw == operators[MinOf(hits)]
             IN  addToken(match(lx, Len(kw)), "Operator", kw)

lexOpcode(lx) ==
    LET hits == {i \in DOMAIN opcodes : wordPattern(opcodes[i], lx.text, lx.start) >= 0}
    IN  IF ~isActive(lx) \/ hits = {} THEN lx
        ELSE LET kw == opcodes[MinOf(hits)]
             IN  addToken(match(lx, Len(kw)), "Opcode", kw)

lexName(lx) ==
    LET n == namePattern(lx.text, lx.start)
    IN  IF ~isActive(lx) \/ n < 0 THEN lx
        ELSE LET l1 == match(lx, n)
             IN  addToken(l1, "Name", Substring(l1.text, l1.start, l1.end))

lexNumber(lx) ==
    LET n == numberPattern(lx.text, lx.start)
    IN  IF ~isActive(lx) \/ n < 0 THEN lx
        ELSE addToken(match(lx, n), "LiteralNumber", Undefined)

\* The chain of methods in the body of the while loop of lexLine: each
\* method is called on the Lexer that the previous one returned.
lexChain(lx) ==
    CHOOSE r \in
        {lexNumber(l7) : l7 \in
        {lexName(l6) : l6 \in
        {lexOperator(l5) : l5 \in
        {lexKeyword(l4) : l4 \in
        {lexOpcode(l3) : l3 \in
        {lexStringLiteral(l2) : l2 \in
        {lexLineComment(l1) : l1 \in {startLex(lx)}}}}}}}} : TRUE

\* The while loop of lexLine.
RECURSIVE lexLoop(_)
lexLoop(lx) ==
    IF lexIsDone(lx) THEN lx
    ELSE LET l1 == lexChain(lx)
         IN  IF isActive(l1) THEN addError(l1, "Syntax error") ELSE lexLoop(l1)

lexLine(text, lineNumber) ==
    LET lexed == lexLoop(lexStarComment(startLex(Lexer(text, lineNumber))))
    IN  [tokens |-> lexed.tokens, diagnostics |-> lexed.diagnostics]

(***************************************************************************)
(* bsa_parse.ts: operator tables and ParserResult                          *)
(***************************************************************************)

unaryOperators == {<<"+">>, <<"-">>, <<"!">>, <<"~">>, <<"<">>, <<">">>}

binaryOperators ==
    {<<"=","=">>, <<"!","=">>, <<">","=">>, <<"<","=">>, <<">",">">>, <<"<","<">>,
     <<"&","&">>, <<"|","|">>,
     <<"+">>, <<"-">>, <<"*">>, <<"/">>, <<"&">>, <<"|">>, <<"^">>}

binaryOperatorPriorites ==
    (<<"*">> :> 11) @@ (<<"/">> :> 11) @@ (<<"+">> :> 10) @@ (<<"-">> :> 10) @@
    (<<"<","<">> :> 9) @@ (<<">",">">> :> 9) @@
    (<<"<","=">> :> 8) @@ (<<"<">> :> 8) @@ (<<">","=">> :> 8) @@ (<<">">> :> 8) @@
    (<<"=","=">> :> 7) @@ (<<"!","=">> :> 7) @@
    (<<"&">> :> 6) @@ (<<"^">> :> 5) @@ (<<"|">> :> 4) @@
    (<<"&","&">> :> 3) @@ (<<"|","|">> :> 2)

\* new Map()
EmptyMap == [k \in {} |-> <<>>]

\* Map.prototype.get, undefined read as the empty list
MapGet(m, k) == IF k \in DOMAIN m THEN m[k] ELSE <<>>

\* Map.prototype.set
MapSet(m, k, v) == [x \in DOMAIN m \cup {k} |-> IF x = k THEN v ELSE m[x]]

\* The value undefined where a Token is expected.
UndefinedToken ==
    [type |-> "undefined", lineNumber |-> -1, start |-> -1, end |-> -1,
     normText |-> Undefined]

\* The ParserResult that parseLine returns from a Parser.
ParserResult(p) ==
    [diagnostics |-> p.diagnostics,
     symbolDefinitions |-> p.symbolDefinitions,
     symbolUses |-> p.symbolUses,
     macroDefinitions |-> p.macroDefinitions,
     macroUses |-> p.macroUses]

\* second.symbolUses.forEach((v, k) => { first.symbolUses.set(k, v); })
mergeUsesLeft(first, second) ==
    [k \in DOMAIN first \cup DOMAIN second |->
        IF k \in DOMAIN second THEN second[k] ELSE first[k]]

\* mergeParserResultsLeft with the lists of second put before those of first.
mergeParserResultsSwapped(first, second) ==
    [diagnostics |-> second.diagnostics \o first.diagnostics,
     symbolDefinitions |-> second.symbolDefinitions \o first.symbolDefinitions,
     symbolUses |-> mergeUsesLeft(first.symbolUses, second.symbolUses),
     macroDefinitions |-> second.macroDefinitions \o first.macroDefinitions,
     macroUses |-> mergeUsesLeft(first.macroUses, second.macroUses)]

mergeParserResultsLeft(first, second) ==
    [diagnostics |-> first.diagnostics \o second.diagnostics,
     symbolDefinitions |-> first.symbolDefinitions \o second.symbolDefinitions,
     symbolUses |-> mergeUsesLeft(first.symbolUses, second.symbolUses),
     macroDefinitions |-> first.macroDefinitions \o second.macroDefinitions,
     macroUses |-> mergeUsesLeft(first.macroUses, second.macroUses)]

(***************************************************************************)
(* class Parser.  The field thrown records that a method raised a          *)
(* TypeError (a property read on undefined); nothing runs after it.        *)
(***************************************************************************)

\* new Parser(text, lineNumber): the constructor calls
\* this.diagnostics.concat(this.lex.diagnostics) and drops the array that
\* concat returns, so this.diagnostics stays empty.
Parser(text, lineNumber) ==
    [text |-> text, lineNumber |-> lineNumber,
     lex |-> lexLine(text, lineNumber),
     pos |-> 0,
     diagnostics |-> <<>>,
     symbolDefinitions |-> <<>>,
     symbolUses |-> EmptyMap,
     macroDefinitions |-> <<>>,
     macroUses |-> EmptyMap,
     thrown |-> FALSE]

\* this.lex.tokens[i]
TokenAt(p, i) ==
    IF i >= 0 /\ i < Len(p.lex.tokens) THEN p.lex.tokens[i + 1] ELSE UndefinedToken

addDiagnosticForTokenRange(p, message, severity, startToken, endToken) ==
    IF startToken = UndefinedToken \/ endToken = UndefinedToken
    THEN [p EXCEPT !.thrown = TRUE]
    ELSE [p EXCEPT !.diagnostics = Append(@,
            [severity |-> severity,
             range |-> [start |-> [line |-> startToken.lineNumber,
                                   character |-> startToken.start],
                        end   |-> [line |-> endToken.lineNumber,
                                   character |-> endToken.end]],
             message |-> message])]

addDiagnosticForToken(p, message, severity, token) ==
    addDiagnosticForTokenRange(p, message, severity, token, token)

addUse(tokMap, tok) ==
    IF tok.normText = Undefined \/ tok.normText = <<>> THEN tokMap
    ELSE MapSet(tokMap, tok.normText, Append(MapGet(tokMap, tok.normText), tok))

startParse(p) == [p EXCEPT !.pos = 0]

isDone(p) == p.pos = Len(p.lex.tokens)

\* expectToken and expectTokenWithText give the parser after the call (p)
\* and the value returned (tok).
expectToken(p, type) ==
    IF ~isDone(p) /\ TokenAt(p, p.pos).type = type
    THEN [p |-> [p EXCEPT !.pos = @ + 1], tok |-> TokenAt(p, p.pos)]
    ELSE [p |-> p, tok |-> UndefinedToken]

\* expectTokenWithText that compares the type of the token only.
expectTokenOfType(p, type, txt) ==
    IF ~isDone(p) /\ TokenAt(p, p.pos).type = type
    THEN [p |-> [p EXCEPT !.pos = @ + 1], tok |-> TokenAt(p, p.pos)]
    ELSE [p |-> p, tok |-> UndefinedToken]

expectTokenWithText(p, type, txt) ==
    IF ~isDone(p) /\ TokenAt(p, p.pos).type = type /\ TokenAt(p, p.pos).normText = txt
    THEN [p |-> [p EXCEPT !.pos = @ + 1], tok |-> TokenAt(p, p.pos)]
    ELSE [p |-> p, tok |-> UndefinedToken]

\* /^\d+\$$/ on the normText of a Name
isLocalLabel(tok) ==
    /\ tok.type = "Name"
    /\ LET t == IF tok.normText = Undefined THEN <<>> ELSE tok.normText
       IN  /\ Len(t) >= 2
           /\ t[Len(t)] = "$"
           /\ \A i \in 1..(Len(t) - 1) : t[i] \in DigitChars

\* expectLabel gives the parser after the call (p) and the value returned (tok).
expectLabel(p) ==
    LET r == expectToken(p, "Name")
    IN  IF r.tok = UndefinedToken THEN r
        ELSE LET p1 == expectTokenWithText(r.p, "Operator", <<":">>).p
             IN  [p |-> IF ~isLocalLabel(r.tok)
                        THEN [p1 EXCEPT !.symbolDefinitions = Append(@, r.tok)]
                        ELSE p1,
                  tok |-> r.tok]

\* expectExpression gives the parser after the call (p) and the boolean
\* returned (ok); binaryLoop is its for (;;) loop after the first term.
RECURSIVE expectExpression(_, _)
RECURSIVE binaryLoop(_, _)
expectExpression(p, priority) ==
    IF isDone(p) THEN [p |-> p, ok |-> FALSE]
    ELSE
    LET tok == TokenAt(p, p.pos)
        isStarOrAmpersand ==
            tok.type = "Operator" /\ (tok.normText = <<"*">> \/ tok.normText = <<"&">>)
        txt == tok.normText
    IN  IF tok.type = "Operator" /\ ~isStarOrAmpersand
        THEN IF txt = <<",">>
             THEN [p |-> p, ok |-> FALSE]
             ELSE IF txt = <<"(">> \/ txt = <<"[">>
             THEN LET closing == IF txt = <<"(">> THEN <<")">> ELSE <<"]">>
                      inner   == expectExpression([p EXCEPT !.pos = @ + 1], 0)
                      c       == expectTokenWithText(inner.p, "Operator", closing)
                  IN  IF ~inner.ok THEN [p |-> inner.p, ok |-> FALSE]
                      ELSE IF c.tok = UndefinedToken
                      THEN [p |-> addDiagnosticForToken(c.p,
                                    IF txt = <<"(">> THEN "Expected closing bracket: )"
                                                     ELSE "Expected closing bracket: ]",
                                    "Error", TokenAt(c.p, c.p.pos - 1)),
                            ok |-> FALSE]
                      ELSE binaryLoop(c.p, priority)
             ELSE IF txt \in unaryOperators
             THEN LET inner == expectExpression([p EXCEPT !.pos = @ + 1], 12)
                  IN  IF ~inner.ok THEN [p |-> inner.p, ok |-> FALSE]
                      ELSE binaryLoop(inner.p, priority)
             ELSE [p |-> addDiagnosticForToken(p, "Unexpected operator", "Error",
                                               TokenAt(p, p.pos)),
                   ok |-> FALSE]
        ELSE IF tok.type # "LiteralNumber" /\ ~isStarOrAmpersand /\ tok.type # "Name"
        THEN [p |-> addDiagnosticForToken(p, "Illegal operand", "Error",
                                          TokenAt(p, p.pos)),
              ok |-> FALSE]
        ELSE LET p1 == IF tok.type = "Name" /\ ~isLocalLabel(tok)
                       THEN [p EXCEPT !.symbolUses = addUse(@, tok)]
                       ELSE p
             IN  binaryLoop([p1 EXCEPT !.pos = @ + 1], priority)

\* binaryLoop that reports a missing operand and goes on.
binaryLoopGoesOn(p, priority) ==
    IF \/ isDone(p)
       \/ TokenAt(p, p.pos).type # "Operator"
       \/ TokenAt(p, p.pos).normText \notin binaryOperators
    THEN [p |-> p, ok |-> TRUE]
    ELSE LET opPriority == binaryOperatorPriorites[TokenAt(p, p.pos).normText]
             inner      == expectExpression([p EXCEPT !.pos = @ + 1], opPriority)
         IN  IF opPriority <= priority THEN [p |-> p, ok |-> TRUE]
             ELSE IF ~inner.ok
             THEN [p |-> addDiagnosticForToken(inner.p, "Missing operand", "Error",
                                               TokenAt(inner.p, inner.p.pos - 1)),
                   ok |-> TRUE]
             ELSE binaryLoop(inner.p, priority)

\* binaryLoop that stops only at an operator of lower priority.
binaryLoopLower(p, priority) ==
    IF \/ isDone(p)
       \/ TokenAt(p, p.pos).type # "Operator"
       \/ TokenAt(p, p.pos).normText \notin binaryOperators
    THEN [p |-> p, ok |-> TRUE]
    ELSE LET opPriority == binaryOperatorPriorites[TokenAt(p, p.pos).normText]
             inner      == expectExpression([p EXCEPT !.pos = @ + 1], opPriority)
         IN  IF opPriority < priority THEN [p |-> p, ok |-> TRUE]
             ELSE IF ~inner.ok
             THEN [p |-> addDiagnosticForToken(inner.p, "Missing operand", "Error",
                                               TokenAt(inner.p, inner.p.pos - 1)),
                   ok |-> FALSE]
             ELSE binaryLoop(inner.p, priority)

binaryLoop(p, priority) ==
    IF \/ isDone(p)
       \/ TokenAt(p, p.pos).type # "Operator"
       \/ TokenAt(p, p.pos).normText \notin binaryOperators
    THEN [p |-> p, ok |-> TRUE]
    ELSE LET opPriority == binaryOperatorPriorites[TokenAt(p, p.pos).normText]
             inner      == expectExpression([p EXCEPT !.pos = @ + 1], opPriority)
         IN  IF opPriority <= priority THEN [p |-> p, ok |-> TRUE]
             ELSE IF ~inner.ok
             THEN [p |-> addDiagnosticForToken(inner.p, "Missing operand", "Error",
                                               TokenAt(inner.p, inner.p.pos - 1)),
                   ok |-> FALSE]
             ELSE binaryLoop(inner.p, priority)

(***************************************************************************)
(* The statement methods of Parser, in the order parseLine chains them.    *)
(***************************************************************************)

\* The loop for (this.pos = 1; this.pos < tokens.length; this.pos++) that
\* parseSoloTokens, parseIfDirective and parseIfDefDirective run when the
\* keyword does not start the line: the first later occurrence of the
\* keyword is reported and the cursor ends at tokens.length; without an
\* occurrence the cursor returns to prevPos.
scanErrant(p, kw, message) ==
    LET hits == {k \in 1..(Len(p.lex.tokens) - 1) :
                    /\ TokenAt(p, k).type = "Keyword"
                    /\ TokenAt(p, k).normText = kw}
    IN  IF hits = {} THEN p
        ELSE [addDiagnosticForToken(p, message, "Error", TokenAt(p, MinOf(hits)))
                EXCEPT !.pos = Len(p.lex.tokens)]

\* for (const kw of ['#else', '#endif', 'endmac'])
soloKeywords ==
    << [kw |-> <<"#","e","l","s","e">>,
        after  |-> "Unexpected text after #else",
        before |-> "Unexpected text before #else"],
       [kw |-> <<"#","e","n","d","i","f">>,
        after  |-> "Unexpected text after #endif",
        before |-> "Unexpected text before #endif"],
       [kw |-> <<"e","n","d","m","a","c">>,
        after  |-> "Unexpected text after endmac",
        before |-> "Unexpected text before endmac"] >>

\* One iteration of the loop of parseSoloTokens that only looks at the first
\* token.
soloKeywordFirstOnly(p, s) ==
    LET r == expectTokenWithText(p, "Keyword", s.kw)
    IN  IF p.pos = 0 /\ r.tok # UndefinedToken
        THEN [(IF Len(p.lex.tokens) > 1
               THEN addDiagnosticForToken(r.p, s.after, "Error", TokenAt(p, 0))
               ELSE r.p)
                EXCEPT !.pos = Len(p.lex.tokens)]
        ELSE p

\* One iteration of the loop of parseSoloTokens.
soloKeyword(p, s) ==
    LET r == expectTokenWithText(p, "Keyword", s.kw)
    IN  IF p.pos = 0 /\ r.tok # UndefinedToken
        THEN [(IF Len(p.lex.tokens) > 1
               THEN addDiagnosticForToken(r.p, s.after, "Error", TokenAt(p, 0))
               ELSE r.p)
                EXCEPT !.pos = Len(p.lex.tokens)]
        ELSE IF Len(p.lex.tokens) > 1
        THEN scanErrant(p, s.kw, s.before)
        ELSE p

\* parseSoloTokens without its search for the keywords it handles.
parseSoloTokensSkipped(p) == p

parseSoloTokens(p) ==
    IF isDone(p) THEN p
    ELSE soloKeyword(soloKeyword(soloKeyword(p, soloKeywords[1]),
                                 soloKeywords[2]), soloKeywords[3])

parseIfDirective(p) ==
    LET r == expectTokenWithText(p, "Keyword", <<"#","i","f">>)
        e == expectExpression(r.p, 0)
    IN  IF isDone(p) THEN p
        ELSE IF p.pos = 0 /\ r.tok # UndefinedToken
        THEN [(IF ~e.ok
               THEN addDiagnosticForToken(e.p, "Missing or invalid expression for #if",
                                          "Error", TokenAt(p, 0))
               ELSE IF /\ e.p.pos < Len(p.lex.tokens)
                       /\ TokenAt(e.p, e.p.pos).type # "RestOfLine"
               THEN addDiagnosticForToken(e.p, "Unexpected text after #if",
                                          "Error", TokenAt(p, 0))
               ELSE e.p)
                EXCEPT !.pos = Len(p.lex.tokens)]
        ELSE IF Len(p.lex.tokens) > 1
        THEN scanErrant(p, <<"#","i","f">>, "Unexpected text before #if")
        ELSE p

IsKeywordAtStart(p) ==
    p.pos = 0 /\ TokenAt(p, 0).type = "Keyword"
        /\ TokenAt(p, 0).normText = <<"#","i","f","d","e","f">>

\* parseIfDefDirective without its diagnostics.
parseIfDefDirectiveSilent(p) ==
    IF isDone(p) THEN p
    ELSE IF IsKeywordAtStart(p) THEN [p EXCEPT !.pos = Len(p.lex.tokens)]
    ELSE p

parseIfDefDirective(p) ==
    LET r == expectTokenWithText(p, "Keyword", <<"#","i","f","d","e","f">>)
        n == expectToken(r.p, "Name")
        u == IF ~isLocalLabel(n.tok)
             THEN [n.p EXCEPT !.symbolUses = addUse(@, n.tok)]
             ELSE n.p
    IN  IF isDone(p) THEN p
        ELSE IF p.pos = 0 /\ r.tok # UndefinedToken
        THEN [(IF n.tok # UndefinedToken
               THEN IF /\ u.pos < Len(p.lex.tokens)
                       /\ TokenAt(u, u.pos).type # "RestOfLine"
                    THEN addDiagnosticForToken(u, "Unexpected text after #ifdef",
                                               "Error", TokenAt(p, 0))
                    ELSE u
               ELSE addDiagnosticForToken(n.p, "Missing symbol for #ifdef",
                                          "Error", TokenAt(p, 0)))
                EXCEPT !.pos = Len(p.lex.tokens)]
        ELSE IF Len(p.lex.tokens) > 1
        THEN scanErrant(p, <<"#","i","f","d","e","f">>, "Unexpected text before #ifdef")
        ELSE p

handleUnrecognizedHashDirective(p) ==
    LET r == expectTokenWithText(p, "Operator", <<"#">>)
    IN  IF isDone(p) THEN p
        ELSE IF p.pos = 0 /\ r.tok # UndefinedToken
        THEN [addDiagnosticForToken(r.p, "Unrecognized conditional assembly directive",
                                    "Error", TokenAt(p, 0))
                EXCEPT !.pos = Len(p.lex.tokens)]
        ELSE p

\* while (expectArgs && this.expectToken(TokenType.Name))
\*     expectArgs = !!this.expectTokenWithText(TokenType.Operator, ',');
RECURSIVE macroDefinitionArgs(_)
macroDefinitionArgs(p) ==
    LET n == expectToken(p, "Name")
        c == expectTokenWithText(n.p, "Operator", <<",">>)
    IN  IF n.tok = UndefinedToken THEN p
        ELSE IF c.tok = UndefinedToken THEN n.p
        ELSE macroDefinitionArgs(c.p)

parseMacroDefinitionStart(p) ==
    LET k       == expectTokenWithText(p, "Keyword", <<"m","a","c","r","o">>)
        nameTok == expectToken(k.p, "Name")
        open    == expectTokenWithText(nameTok.p, "Operator", <<"(">>)
        args    == macroDefinitionArgs(open.p)
        close   == expectTokenWithText(args, "Operator", <<")">>)
        body    ==
            IF nameTok.tok # UndefinedToken
            THEN IF open.tok = UndefinedToken
                 THEN addDiagnosticForToken(open.p, "Missing ( for macro definition",
                                            "Error", nameTok.tok)
                 ELSE IF close.tok = UndefinedToken
                 THEN addDiagnosticForToken(close.p, "Missing ) for macro definition",
                                            "Error", nameTok.tok)
                 ELSE IF ~isDone(close.p)
                 THEN addDiagnosticForToken(close.p,
                                            "Unexpected text after macro definition start",
                                            "Error", TokenAt(close.p, close.p.pos))
                 ELSE [close.p EXCEPT !.macroDefinitions = Append(@, nameTok.tok)]
            ELSE addDiagnosticForToken(nameTok.p, "Missing name for macro definition",
                                       "Error", TokenAt(nameTok.p, nameTok.p.pos))
    IN  IF isDone(p) THEN p
        ELSE IF k.tok # UndefinedToken
        THEN IF body.thrown THEN body
             ELSE [body EXCEPT !.pos = Len(p.lex.tokens)]
        ELSE p

parseAssignment(p) ==
    LET n1      == expectToken(p, "Name")
        n2      == expectTokenWithText(p, "Operator", <<"&">>)
        nameTok == IF n1.tok # UndefinedToken THEN n1 ELSE n2
        eq      == expectTokenWithText(nameTok.p, "Operator", <<"=">>)
        e       == expectExpression(eq.p, 0)
    IN  IF isDone(p) THEN p
        ELSE IF nameTok.tok = UndefinedToken THEN p
        ELSE IF eq.tok = UndefinedToken THEN p
        ELSE [(IF ~e.ok
               THEN addDiagnosticForToken(e.p, "Invalid assignment expression",
                                          "Error", TokenAt(e.p, e.p.pos - 1))
               ELSE IF nameTok.tok.normText # <<"*">> /\ nameTok.tok.normText # <<"&">>
               THEN [e.p EXCEPT !.symbolDefinitions = Append(@, nameTok.tok)]
               ELSE e.p)
                EXCEPT !.pos = Len(p.lex.tokens)]

parseLabel(p) ==
    LET secondTok == TokenAt(p, p.pos + 1)
    IN  IF isDone(p) THEN p
        ELSE IF /\ TokenAt(p, p.pos).type = "Name"
                /\ (secondTok.type # "Operator" \/ secondTok.normText # <<"(">>)
        THEN expectLabel(p).p
        ELSE p

\* The while loop of parseMacroUse; gives the parser after the loop (p) and
\* sawArgumentError.
RECURSIVE macroUseArgs(_, _)
macroUseArgs(p, sawComma) ==
    LET close == expectTokenWithText(p, "Operator", <<")">>)
        e     == expectExpression(p, 0)
        comma == expectTokenWithText(e.p, "Operator", <<",">>)
    IN  IF close.tok # UndefinedToken
        THEN [p |-> close.p, sawArgumentError |-> FALSE]
        ELSE IF isDone(p) \/ ~sawComma
        THEN [p |-> addDiagnosticForToken(p, "Expected , or )", "Error",
                                          TokenAt(p, p.pos - 1)),
              sawArgumentError |-> TRUE]
        ELSE IF ~e.ok
        THEN [p |-> addDiagnosticForToken(e.p, "Invalid macro argument", "Error",
                                          TokenAt(e.p, e.p.pos - 1)),
              sawArgumentError |-> TRUE]
        ELSE macroUseArgs(comma.p, comma.tok # UndefinedToken)

parseMacroUse(p) ==
    LET macroUseTok == expectToken(p, "Name")
        open        == expectTokenWithText(macroUseTok.p, "Operator", <<"(">>)
        args        == macroUseArgs(open.p, TRUE)
    IN  IF isDone(p) THEN p
        ELSE IF macroUseTok.tok = UndefinedToken THEN p
        ELSE [(IF open.tok = UndefinedToken
               THEN addDiagnosticForToken(open.p,
                        "Unexpected name; maybe macro call missing () ?",
                        "Error", macroUseTok.tok)
               ELSE IF args.sawArgumentError THEN args.p
               ELSE IF ~isDone(args.p)
               THEN addDiagnosticForToken(args.p, "Unexpected text after macro call",
                                          "Error", TokenAt(args.p, args.p.pos))
               ELSE [args.p EXCEPT !.macroUses = addUse(@, macroUseTok.tok)])
                EXCEPT !.pos = Len(p.lex.tokens)]

parsePseudoOp(p) ==
    LET keywordTok == expectToken(p, "Keyword")
    IN  IF isDone(p) THEN p
        ELSE IF keywordTok.tok = UndefinedToken THEN p
        ELSE [keywordTok.p EXCEPT !.pos = Len(p.lex.tokens)]

parseOpcode(p) ==
    LET opcodeTok == expectToken(p, "Opcode")
    IN  IF opcodeTok.tok = UndefinedToken THEN p
        ELSE [opcodeTok.p EXCEPT !.pos = Len(p.lex.tokens)]

\* The end of parseLine: the generic diagnostic when the chain left tokens.
\* The end of parseLine with the generic diagnostic on every line that has
\* a token.
finishLineAlways(p) ==
    IF Len(p.lex.tokens) > 0
    THEN addDiagnosticForTokenRange(p, "Syntax error", "Error",
                                    TokenAt(p, 0), TokenAt(p, 0))
    ELSE p

finishLine(p) ==
    IF ~isDone(p)
    THEN addDiagnosticForTokenRange(p, "Syntax error", "Error",
                                    TokenAt(p, 0), TokenAt(p, 0))
    ELSE p

\* Method chaining: a method that threw ends the chain.
Chain(p, q) == IF p.thrown THEN p ELSE q

\* parseLine as one call: the Parser when it returns (its ParserResult is
\* ParserResult(parseLine(text, n))), or a Parser with thrown set.
parseLine(text, lineNumber) ==
    CHOOSE r \in
    {Chain(p10, finishLine(p10)) : p10 \in
    {Chain(p9, parseOpcode(p9)) : p9 \in
    {Chain(p8, parsePseudoOp(p8)) : p8 \in
    {Chain(p7, parseMacroUse(p7)) : p7 \in
    {Chain(p6, parseLabel(p6)) : p6 \in
    {Chain(p5, parseAssignment(p5)) : p5 \in
    {Chain(p4, parseMacroDefinitionStart(p4)) : p4 \in
    {Chain(p3, handleUnrecognizedHashDirective(p3)) : p3 \in
    {Chain(p2, parseIfDefDirective(p2)) : p2 \in
    {Chain(p1, parseIfDirective(p1)) : p1 \in
    {parseSoloTokens(p0) : p0 \in
    {startParse(Parser(text, lineNumber))}}}}}}}}}}}} : TRUE

\* String.prototype.split('\n')
RECURSIVE split(_)
split(s) ==
    LET breaks == {i \in 1..Len(s) : s[i] = "\n"}
    IN  IF breaks = {} THEN <<s>>
        ELSE <<SubSeq(s, 1, MinOf(breaks) - 1)>>
                 \o split(SubSeq(s, MinOf(breaks) + 1, Len(s)))

(***************************************************************************)
(* The documents the model parses.  A line is a sequence of at most        *)
(* MaxWords words of a lexicon separated by single blanks; a document is   *)
(* one such line, or up to MaxLines lines of DocLines joined by "\n".      *)
(***************************************************************************)

MaxStatementWords == 2

MaxAssignWords == 4

MaxCallWords == 5

MaxLines == 3

MaxMacroWords == 4

MaxDirectiveWords == 3

StatementWords ==
    { <<"f","o","o">>, <<"1","0","$">>, <<"1">>, <<"=">>, <<"(">>, <<":">>, <<"#">>,
      <<"m","a","c","r","o">>, <<"#","e","l","s","e">>, <<"#","i","f">>,
      <<"#","i","f","d","e","f">>, <<".","b","y","t","e">>, <<"l","d","a">>,
      <<"?">> }

AssignWords ==
    { <<"f","o","o">>, <<"1","0","$">>, <<"*">>, <<"&">>, <<"=">>, <<"1">> }

CallWords ==
    { <<"f","o","o">>, <<"(">>, <<")">>, <<",">> }

MacroWords ==
    { <<"m","a","c","r","o">>, <<"f","o","o">>, <<"(">>, <<")">>, <<",">> }

DirectiveWords ==
    { <<"#","e","l","s","e">>, <<"#","e","n","d","i","f">>, <<"e","n","d","m","a","c">>,
      <<"#","i","f","d","e","f">>, <<"f","o","o">>, <<"1","0","$">> }

DocLines ==
    { <<"f","o","o"," ","="," ","b","a","r">>,
      <<"b","a","r"," ","="," ","b","a","r"," ","+"," ","f","o","o">>,
      <<"m","(","b","a","r",")">>,
      <<"m","a","c","r","o">>,
      <<"f","o","o",":"," ","1">>,
      <<"m","a","c","r","o"," ","m","(",")">>,
      <<>> }

\* Lines that the specification and the tests name.
ExampleLines ==
    { <<"l","d","a"," ","(","$","7","a",",","a",")">>,
      <<"i","r","q","_","w","r","a","p","_","f","l","a","g"," ","*","=","*","+","1">>,
      <<"f","o","o","(","2"," ","+",")">>,
      <<"f","o","o","(","1",",",")">>,
      <<"*"," ","="," ","$","2","0","0","0">>,
      <<"f","o","o"," ","#","e","n","d","i","f">>,
      <<"f","o","o",":"," ","e","n","d","m","a","c">>,
      <<"m","a","c","r","o"," ","n","a","m","e","(","a","r","g","1",","," ","a","r","g","2",",",
        " ","a","r","g","3",")">>,
      <<"m","a","c","r","o"," ","f","o","o","(","a",",",")">>,
      <<"m","a","c","r","o"," ","f","o","o","(",")"," ","f","o","o">> }

RECURSIVE Join(_, _)
Join(parts, sep) ==
    IF Len(parts) = 0 THEN <<>>
    ELSE IF Len(parts) = 1 THEN parts[1]
    ELSE parts[1] \o sep \o Join(Tail(parts), sep)

SeqsUpTo(S, n) == UNION {[1..k -> S] : k \in 0..n}

LinesOver(W, n) == {Join(ws, <<" ">>) : ws \in SeqsUpTo(W, n)}

Lines ==
    LinesOver(StatementWords, MaxStatementWords)
        \cup LinesOver(AssignWords, MaxAssignWords)
        \cup LinesOver(CallWords, MaxCallWords)
        \cup LinesOver(MacroWords, MaxMacroWords)
        \cup LinesOver(DirectiveWords, MaxDirectiveWords)
        \cup ExampleLines

Documents ==
    Lines \cup {Join(ls, <<"\n">>) : ls \in UNION {[1..k -> DocLines] : k \in 2..MaxLines}}

(***************************************************************************)
(* parseBsa as a state machine: for each line of the text in turn a new    *)
(* Parser runs the chain of parseLine, one method per step, and its        *)
(* ParserResult is kept; reduce then folds the results left to right.      *)
(***************************************************************************)

VARIABLES
    bodyText,   \* the argument of parseBsa
    lineNum,    \* the counter lineNum of parseBsa
    par,        \* the Parser of the line being parsed
    pc,         \* the next step
    mapped,     \* the ParserResults that map has produced
    reduced,    \* how many of them reduce has folded
    results,    \* the accumulator of reduce
    lexer,      \* the Lexer of lexLine, when lexLine is followed step by step
    call,       \* the call of expectExpression made on par: pos, priority, ok
    documents,  \* server.ts: the text of each open document, by URI
    documentParseResults,   \* server.ts: the stored ParserResult, by URI
    sent,       \* server.ts: the last message of connection.sendDiagnostics
    response    \* server.ts: the answer to the last request

serverVars == <<documents, documentParseResults, sent, response>>

vars == <<bodyText, lineNum, par, pc, mapped, reduced, results, lexer, call, serverVars>>

\* The URIs of the documents that the client opens.
Uris == {"a.asm", "b.asm"}

\* The value null that a request handler returns.
Null == <<"null">>

\* No call of expectExpression has been made.
NoCall == [pos |-> 0, priority |-> 0, ok |-> FALSE]

\* The language server after start: no document is open, the Map
\* documentParseResults is empty, nothing has been sent or answered.
ServerStarted ==
    /\ documents = [u \in Uris |-> Undefined]
    /\ documentParseResults = [u \in Uris |-> <<>>]
    /\ sent = <<>>
    /\ response = <<>>

lines == split(bodyText)

Init ==
    /\ bodyText \in Documents
    /\ lineNum = 0
    /\ par = Parser(<<>>, 0)
    /\ pc = "parseLine"
    /\ mapped = <<>>
    /\ reduced = 0
    /\ results = ParserResult(Parser(<<>>, 0))
    /\ lexer = Lexer(<<>>, 0)
    /\ call = NoCall
    /\ ServerStarted

\* One method of the chain: from step `at`, par becomes q and the chain
\* goes on at `next` unless the method threw.
Step(at, q, next) ==
    /\ pc = at
    /\ par' = q
    /\ pc' = IF q.thrown THEN "thrown" ELSE next
    /\ UNCHANGED <<bodyText, lineNum, mapped, reduced, results, lexer, call, serverVars>>

\* parseLine(line, lineNum++): new Parser(text, lineNumber).startParse()
NewParser ==
    /\ pc = "parseLine"
    /\ par' = startParse(Parser(lines[lineNum + 1], lineNum))
    /\ lineNum' = lineNum + 1
    /\ pc' = "parseSoloTokens"
    /\ UNCHANGED <<bodyText, mapped, reduced, results, lexer, call, serverVars>>

ParseSoloTokens == Step("parseSoloTokens", parseSoloTokens(par), "parseIfDirective")

ParseIfDirective == Step("parseIfDirective", parseIfDirective(par), "parseIfDefDirective")

ParseIfDefDirective ==
    Step("parseIfDefDirective", parseIfDefDirective(par), "handleUnrecognizedHashDirective")

HandleUnrecognizedHashDirective ==
    Step("handleUnrecognizedHashDirective", handleUnrecognizedHashDirective(par),
         "parseMacroDefinitionStart")

ParseMacroDefinitionStart ==
    Step("parseMacroDefinitionStart", parseMacroDefinitionStart(par), "parseAssignment")

ParseAssignment == Step("parseAssignment", parseAssignment(par), "parseLabel")

ParseLabel == Step("parseLabel", parseLabel(par), "parseMacroUse")

ParseMacroUse == Step("parseMacroUse", parseMacroUse(par), "parsePseudoOp")

ParsePseudoOp == Step("parsePseudoOp", parsePseudoOp(par), "parseOpcode")

ParseOpcode == Step("parseOpcode", parseOpcode(par), "return")

\* The end of parseLine: the generic diagnostic, and the ParserResult joins
\* the array that map builds.  After the last line reduce starts from the
\* first result.
ReturnResult ==
    /\ pc = "return"
    /\ par' = finishLine(par)
    /\ mapped' = Append(mapped, ParserResult(par'))
    /\ IF lineNum < Len(lines)
       THEN /\ pc' = "parseLine"
            /\ UNCHANGED <<reduced, results>>
       ELSE /\ results' = mapped'[1]
            /\ reduced' = 1
            /\ pc' = IF Len(mapped') = 1 THEN "done" ELSE "reduce"
    /\ UNCHANGED <<bodyText, lineNum, lexer, call, serverVars>>

\* One call of mergeParserResultsLeft by reduce.
Reduce ==
    /\ pc = "reduce"
    /\ results' = mergeParserResultsLeft(results, mapped[reduced + 1])
    /\ reduced' = reduced + 1
    /\ pc' = IF reduced + 1 = Len(mapped) THEN "done" ELSE "reduce"
    /\ UNCHANGED <<bodyText, lineNum, par, mapped, lexer, call, serverVars>>

Next ==
    \/ NewParser
    \/ ParseSoloTokens
    \/ ParseIfDirective
    \/ ParseIfDefDirective
    \/ HandleUnrecognizedHashDirective
    \/ ParseMacroDefinitionStart
    \/ ParseAssignment
    \/ ParseLabel
    \/ ParseMacroUse
    \/ ParsePseudoOp
    \/ ParseOpcode
    \/ ReturnResult
    \/ Reduce

Spec == Init /\ [][Next]_vars

(***************************************************************************)
(* lexLine as a state machine over one line: the first step is             *)
(* startLex().lexStarComment(), every later step one iteration of the      *)
(* while loop, until the loop ends and lexLine returns the tokens and the  *)
(* diagnostics of the Lexer.  The lines are at most MaxAtoms atoms, each a *)
(* character or a word, written one after the other.                       *)
(***************************************************************************)

MaxAtoms == 3

Atoms ==
    { <<" ">>, <<"a">>, <<"1">>, <<"$">>, <<"*">>, <<"=">>, <<";">>, <<"'">>, <<"\"">>,
      <<"\\">>, <<".","b","h","e","x">>, <<"#","E","R","R","O","R">>,
      <<".","b","y","t","e">> }

\* Lines that the tests of the lexer name.
LexExampleLines ==
    { <<".","B","H","E","X"," ","0","1",",","2","b",",","c","4"," "," ",";"," ","c">>,
      <<"#","e","r","r","o","r"," ","s","o","m","e">>,
      <<" "," "," ","\"","s","t","r","\\","\"","\\","i","n","g"," ","e","t","c",".">>,
      <<" ","$","g","a","d","f">>,
      <<" "," ","*"," ","s","t","a","r">>,
      <<" "," "," ","*"," ","="," ","$","2","0","0","1">>,
      <<"s","y","m",":">> }

LexLines == {Join(as, <<>>) : as \in SeqsUpTo(Atoms, MaxAtoms)} \cup LexExampleLines

LexInit ==
    /\ bodyText \in LexLines
    /\ lexer = Lexer(bodyText, 0)
    /\ pc = "lexLine"
    /\ lineNum = 0
    /\ par = Parser(<<>>, 0)
    /\ mapped = <<>>
    /\ reduced = 0
    /\ results = ParserResult(Parser(<<>>, 0))
    /\ call = NoCall
    /\ ServerStarted

\* results = results.startLex().lexStarComment()
LexStart ==
    /\ pc = "lexLine"
    /\ lexer' = lexStarComment(startLex(lexer))
    /\ pc' = IF lexIsDone(lexer') THEN "lexReturn" ELSE "lexLoop"
    /\ UNCHANGED <<bodyText, lineNum, par, mapped, reduced, results, call, serverVars>>

\* One iteration of the while loop: the chain of methods, then the error
\* and the break when nothing matched.
LexIteration ==
    /\ pc = "lexLoop"
    /\ \E l1 \in {lexChain(lexer)} :
           IF isActive(l1)
           THEN /\ lexer' = addError(l1, "Syntax error")
                /\ pc' = "lexReturn"
           ELSE /\ lexer' = l1
                /\ pc' = IF lexIsDone(l1) THEN "lexReturn" ELSE "lexLoop"
    /\ UNCHANGED <<bodyText, lineNum, par, mapped, reduced, results, call, serverVars>>

LexNext == LexStart \/ LexIteration

\* lexLine runs to its return: no step of it waits for anything.
LexSpec == LexInit /\ [][LexNext]_vars /\ WF_vars(LexNext)

(***************************************************************************)
(* expectExpression as a state machine: a Parser is made for the text of   *)
(* an expression and expectExpression is called on it, at the start of the *)
(* text as the statement methods and the tests call it, or behind an       *)
(* operator as expectExpression calls itself.                              *)
(***************************************************************************)

MaxArithWords == 4

MaxBracketWords == 4

MaxCompareWords == 3

MaxStringWords == 2

\* Sums, differences, products and quotients.
ArithWords == { <<"1">>, <<"+">>, <<"-">>, <<"*">>, <<"/">> }

\* Sub-expressions in round and square brackets.
BracketWords == { <<"a">>, <<"(">>, <<")">>, <<"[">>, <<"]">>, <<"+">> }

\* Comparisons.
CompareWords == { <<"a">>, <<"1">>, <<"<">>, <<">">>, <<"<","=">>, <<">","=">> }

\* String literals.
StringWords ==
    { <<"'","X","'">>, <<"'","X","Y","'">>, <<"'","\\","'","'">>, <<"\"","X","\"">>,
      <<"'","'">>, <<"+">>, <<"1">> }

\* Expressions that the tests name.
ExpressionExamples ==
    { <<"<","(","s","y","m"," ","+"," ","$","c","0","0","0"," ",">",">"," ","2"," ","-"," ",
        "%","0","1","0","0",")"," ","+"," ",">","s","y","m","2">>,
      <<"<","(","s","y","m"," ","+"," ",">",">"," ","2"," ","-"," ","%","0","1","0","0",")",
        " ","+"," ",">","s","y","m","2">>,
      <<"(","a","b","c",")"," ","+"," ","(","d","e","f","]">>,
      <<"(","a","b","c","]">>,
      <<"1","+","2","*","3">>,
      <<"1","*","2","+","3">>,
      <<"=","=","a","b","c">>,
      <<"<","(","a","b","c",")">>,
      <<"1","0","$"," ","+"," ","a">> }

Expressions ==
    LinesOver(ArithWords, MaxArithWords)
        \cup LinesOver(BracketWords, MaxBracketWords)
        \cup LinesOver(CompareWords, MaxCompareWords)
        \cup LinesOver(StringWords, MaxStringWords)
        \cup ExpressionExamples

\* The priorities with which expectExpression is called at token k: 0 by
\* the statement methods, by the tests and behind a bracket, 12 behind a
\* unary operator, and the operator's priority behind a binary operator.
CallPriorities(p, k) ==
    {0} \cup
    IF k > 0 /\ TokenAt(p, k - 1).type = "Operator"
    THEN LET txt == TokenAt(p, k - 1).normText
         IN  (IF txt \in unaryOperators THEN {12} ELSE {})
                 \cup (IF txt \in binaryOperators
                       THEN {binaryOperatorPriorites[txt]} ELSE {})
    ELSE {}

ExprInit ==
    /\ bodyText \in Expressions
    /\ par = startParse(Parser(bodyText, 0))
    /\ pc = "expectExpression"
    /\ call = NoCall
    /\ lineNum = 0
    /\ mapped = <<>>
    /\ reduced = 0
    /\ results = ParserResult(Parser(<<>>, 0))
    /\ lexer = Lexer(<<>>, 0)
    /\ ServerStarted

\* par.pos = k; par.expectExpression(priority)
ExpectExpression ==
    /\ pc = "expectExpression"
    /\ \E k \in 0..Len(par.lex.tokens) :
       \E priority \in CallPriorities(par, k) :
       \E r \in {expectExpression([par EXCEPT !.pos = k], priority)} :
           /\ par' = r.p
           /\ call' = [pos |-> k, priority |-> priority, ok |-> r.ok]
    /\ pc' = "expressionReturn"
    /\ UNCHANGED <<bodyText, lineNum, mapped, reduced, results, lexer, serverVars>>

ExprNext == ExpectExpression

ExprSpec == ExprInit /\ [][ExprNext]_vars

\* parseBsa as one call: the merged ParserResult, given that no line threw.
RECURSIVE reduceLeft(_, _)
reduceLeft(acc, rest) ==
    IF rest = <<>> THEN acc
    ELSE CHOOSE r \in {reduceLeft(merged, Tail(rest)) :
                       merged \in {mergeParserResultsLeft(acc, rest[1])}} : TRUE

parseBsaThrows(text) ==
    \E i \in 1..Len(split(text)) : parseLine(split(text)[i], i - 1).thrown

parseBsa(text) ==
    CHOOSE r \in {reduceLeft(Head(rs), Tail(rs)) :
                  rs \in {[i \in 1..Len(ls) |-> ParserResult(parseLine(ls[i], i - 1))] @@ <<>> :
                          ls \in {split(text)}}} : TRUE

Range(f) == {f[i] : i \in DOMAIN f}

(***************************************************************************)
(* server.ts: the language server.  The client opens, changes and closes   *)
(* documents and sends requests; each handler runs to its end.             *)
(***************************************************************************)

MaxPosition == 2

\* The texts that the client gives a document.
ServerTexts ==
    { <<"f","o","o"," ","="," ","b","a","r">>,
      <<"m","(","b","a","r",")","\n","b","a","r"," ","="," ","1">>,
      <<"m","a","c","r","o"," ","m","(",")","\n","m","(","m",")">>,
      <<"m","a","c","r","o">> }

\* The lines and characters of the positions that the client asks about.
Positions == 0..MaxPosition

\* The tokens of the set S as a list, in the order of their start.
RECURSIVE InOrder(_)
InOrder(S) ==
    IF S = {} THEN <<>>
    ELSE LET first == CHOOSE t \in S : \A u \in S : t.start <= u.start
         IN  <<first>> \o InOrder(S \ {first})

\* ParserResult.symbolUsesByLine: the symbol use tokens of each line.
symbolUsesByLine(text) ==
    [n \in 0..(Len(split(text)) - 1) |->
        CHOOSE uses \in {InOrder(UNION {Range(p.symbolUses[k]) : k \in DOMAIN p.symbolUses}) :
                         p \in {parseLine(split(text)[n + 1], n)}} : TRUE]

\* ParserResult.macroUsesByLine: the macro use tokens of each line.
macroUsesByLine(text) ==
    [n \in 0..(Len(split(text)) - 1) |->
        CHOOSE uses \in {InOrder(UNION {Range(p.macroUses[k]) : k \in DOMAIN p.macroUses}) :
                         p \in {parseLine(split(text)[n + 1], n)}} : TRUE]

\* The ParserResult that parseBsa returns to the server.
serverParseBsa(text) ==
    CHOOSE parsed \in
        {[diagnostics |-> r.diagnostics,
          symbolDefinitions |-> r.symbolDefinitions,
          symbolUses |-> r.symbolUses,
          symbolUsesByLine |-> symbolUsesByLine(text),
          macroDefinitions |-> r.macroDefinitions,
          macroUses |-> r.macroUses,
          macroUsesByLine |-> macroUsesByLine(text)] : r \in {parseBsa(text)}} : TRUE

\* const parseResults = parseBsa(textDocument.getText()), for each text of
\* the client: <<>> where parseBsa throws.
parseResults ==
    [text \in ServerTexts |->
        IF parseBsaThrows(text) THEN <<>> ELSE <<serverParseBsa(text)>>]

\* Array.prototype.find: the first element of the list that is in S, or
\* undefined.
Find(list, S) ==
    IF \E i \in 1..Len(list) : list[i] \in S
    THEN list[MinOf({i \in 1..Len(list) : list[i] \in S})]
    ELSE UndefinedToken

findUseTokenByPosition(usesByLine, definitions, lineNumber, charPos) ==
    IF lineNumber \notin DOMAIN usesByLine THEN UndefinedToken
    ELSE Find(usesByLine[lineNumber],
              {t \in Range(usesByLine[lineNumber]) : charPos >= t.start /\ charPos <= t.end})

findDefinitionForUse(usesByLine, definitions, lineNumber, charPos) ==
    LET useToken == findUseTokenByPosition(usesByLine, definitions, lineNumber, charPos)
    IN  IF useToken = UndefinedToken THEN UndefinedToken
        ELSE Find(definitions,
                  {d \in Range(definitions) : d.normText = useToken.normText})

findReferencesForUse(usesByName, usesByLine, definitions, lineNumber, charPos) ==
    LET useToken == findUseTokenByPosition(usesByLine, definitions, lineNumber, charPos)
    IN  IF useToken = UndefinedToken \/ useToken.normText \in {Undefined, <<>>}
        THEN <<>>
        ELSE MapGet(usesByName, useToken.normText)

\* { line: tok.lineNumber, character: tok.start } .. tok.end
TokenRange(tok) ==
    [start |-> [line |-> tok.lineNumber, character |-> tok.start],
     end |-> [line |-> tok.lineNumber, character |-> tok.end]]

\* The references that onReferences and onDocumentHighlight compute:
\* a || b gives b only when a is falsy, and an array never is.
references(parseResult, line, character) ==
    findReferencesForUse(parseResult.symbolUses, parseResult.symbolUsesByLine,
                         parseResult.symbolDefinitions, line, character)

ServerInit ==
    /\ ServerStarted
    /\ bodyText = <<>>
    /\ lineNum = 0
    /\ par = Parser(<<>>, 0)
    /\ pc = "listen"
    /\ mapped = <<>>
    /\ reduced = 0
    /\ results = ParserResult(Parser(<<>>, 0))
    /\ lexer = Lexer(<<>>, 0)
    /\ call = NoCall

parserVars == <<bodyText, lineNum, par, pc, mapped, reduced, results, lexer, call>>

\* The client opens the document uri with this text or changes its text:
\* documents holds the text and onDidChangeContent runs
\* validateTextDocument.  When parseBsa throws, validateTextDocument
\* ends there, its promise rejected.
DidChangeContent(uri, text) ==
    /\ documents' = [documents EXCEPT ![uri] = text]
    /\ \E stored \in {parseResults[text]} :
           IF stored = <<>>
           THEN UNCHANGED <<documentParseResults, sent>>
           ELSE /\ documentParseResults' =
                       [documentParseResults EXCEPT ![uri] = stored]
                /\ sent' = <<[uri |-> uri, diagnostics |-> stored[1].diagnostics]>>
    /\ UNCHANGED <<response, parserVars>>

\* The client closes the document uri.
DidClose(uri) ==
    /\ documents[uri] # Undefined
    /\ documents' = [documents EXCEPT ![uri] = Undefined]
    /\ documentParseResults' = [documentParseResults EXCEPT ![uri] = <<>>]
    /\ UNCHANGED <<sent, response, parserVars>>

\* documentParseResults.get(uri), when the map has the uri.
Stored(uri) == documentParseResults[uri] # <<>>

StoredResult(uri) == documentParseResults[uri][1]

\* A result that is not null.
Answer(value) == <<"result", value>>

\* The response to a request, kept with the request.
Response(method, uri, line, character, result) ==
    <<[method |-> method, uri |-> uri, line |-> line,
       character |-> character, result |-> result]>>

\* A Location is answered as a list of one, as a list of Locations is.
OnDefinition(uri, line, character) ==
    LET parseResult == StoredResult(uri)
        symbolDef == findDefinitionForUse(parseResult.symbolUsesByLine,
                         parseResult.symbolDefinitions, line, character)
        macroDef  == findDefinitionForUse(parseResult.macroUsesByLine,
                         parseResult.macroDefinitions, line, character)
        defToken  == IF symbolDef # UndefinedToken THEN symbolDef ELSE macroDef
    IN  /\ response' = Response("definition", uri, line, character,
                IF ~Stored(uri) THEN Null
                ELSE IF defToken # UndefinedToken
                THEN Answer(<<[uri |-> uri, range |-> TokenRange(defToken)]>>)
                ELSE Null)
        /\ UNCHANGED <<documents, documentParseResults, sent, parserVars>>

OnReferences(uri, line, character) ==
    LET parseResult == StoredResult(uri)
        refs == references(parseResult, line, character)
    IN  /\ response' = Response("references", uri, line, character,
                IF ~Stored(uri) THEN Null
                ELSE Answer([i \in 1..Len(refs) |->
                                [uri |-> uri, range |-> TokenRange(refs[i])]]))
        /\ UNCHANGED <<documents, documentParseResults, sent, parserVars>>

OnDocumentSymbol(uri) ==
    LET parseResult == StoredResult(uri)
        defs == parseResult.symbolDefinitions \o parseResult.macroDefinitions
    IN  /\ response' = Response("documentSymbol", uri, 0, 0,
                IF ~Stored(uri) THEN Null
                ELSE Answer([i \in 1..Len(defs) |->
                         [name |-> IF defs[i].normText = Undefined THEN <<>>
                                   ELSE defs[i].normText,
                          kind |-> "Variable",
                          location |-> [uri |-> uri, range |-> TokenRange(defs[i])]]]))
        /\ UNCHANGED <<documents, documentParseResults, sent, parserVars>>

OnDocumentHighlight(uri, line, character) ==
    LET parseResult == StoredResult(uri)
        refs == references(parseResult, line, character)
    IN  /\ response' = Response("documentHighlight", uri, line, character,
                IF ~Stored(uri) THEN Null
                ELSE Answer([i \in 1..Len(refs) |-> [range |-> TokenRange(refs[i])]]))
        /\ UNCHANGED <<documents, documentParseResults, sent, parserVars>>

ServerNext ==
    \E uri \in Uris :
        \/ \E text \in ServerTexts : DidChangeContent(uri, text)
        \/ DidClose(uri)
        \/ OnDocumentSymbol(uri)
        \/ \E line \in Positions, character \in Positions :
               \/ OnDefinition(uri, line, character)
               \/ OnReferences(uri, line, character)
               \/ OnDocumentHighlight(uri, line, character)

ServerSpec == ServerInit /\ [][ServerNext]_vars

(***************************************************************************)
(* Properties.                                                             *)
(***************************************************************************)

\* parseLine has returned for line lineNum: par is its Parser as it was
\* left, and mapped[lineNum] its ParserResult.
returned == pc # "thrown" /\ lineNum > 0 /\ Len(mapped) = lineNum

\* The token at index i of p is the operator txt.
IsOperator(p, i, txt) ==
    TokenAt(p, i).type = "Operator" /\ TokenAt(p, i).normText = txt

\* C1: parseLine returns a ParseResult without throwing for every line, so
\* parseBsa never stops before it has analysed every line of the document.
C1_ParseLineNeverThrows == pc # "thrown"

\* C2: every diagnostic that lexLine reports for a line is present in the
\* diagnostics that parseLine returns for that line.
C2_LexDiagnosticsKept ==
    returned => Range(par.lex.diagnostics) \subseteq Range(mapped[lineNum].diagnostics)

\* C3: mergeParserResultsLeft(first, second) gives first's diagnostics,
\* symbolDefinitions and macroDefinitions followed by second's, and for every
\* key first's list of uses followed by second's, a missing key counting as
\* the empty list.
C3_MergeAppendsUses ==
    [][Reduce =>
        LET first  == results
            second == mapped[reduced + 1]
        IN  /\ results'.diagnostics = first.diagnostics \o second.diagnostics
            /\ results'.symbolDefinitions
                   = first.symbolDefinitions \o second.symbolDefinitions
            /\ results'.macroDefinitions
                   = first.macroDefinitions \o second.macroDefinitions
            /\ \A k \in DOMAIN first.symbolUses \cup DOMAIN second.symbolUses :
                   MapGet(results'.symbolUses, k)
                       = MapGet(first.symbolUses, k) \o MapGet(second.symbolUses, k)
            /\ \A k \in DOMAIN first.macroUses \cup DOMAIN second.macroUses :
                   MapGet(results'.macroUses, k)
                       = MapGet(first.macroUses, k) \o MapGet(second.macroUses, k)]_vars

\* No token of the symbol tables of the ParserResult r is a local label.
NoLocalLabel(r) ==
    /\ \A tok \in Range(r.symbolDefinitions) : ~isLocalLabel(tok)
    /\ \A k \in DOMAIN r.symbolUses : \A tok \in Range(r.symbolUses[k]) : ~isLocalLabel(tok)

\* C4: in every ParseResult, per line and merged, no token of
\* symbolDefinitions and no token of a symbolUses list is a local label.
C4_NoLocalLabelInTables ==
    /\ \A i \in 1..Len(mapped) : NoLocalLabel(mapped[i])
    /\ pc \in {"reduce", "done"} => NoLocalLabel(results)

\* The tokens of p from index i on are one valid expression and nothing else.
ExpressionToEnd(p, i) ==
    LET e == expectExpression([p EXCEPT !.pos = i], 0)
    IN  e.ok /\ isDone(e.p)

\* The token at index 0 of p is an assignment target: a Name, `*` or `&`.
IsTarget(p) ==
    \/ TokenAt(p, 0).type = "Name"
    \/ IsOperator(p, 0, <<"*">>)
    \/ IsOperator(p, 0, <<"&">>)

\* C5: on a line target `=` expr with a valid expression, target a Name, `*`
\* or `&`, parseAssignment consumes the whole line without a diagnostic and
\* records target exactly when it is a Name; when the expression is missing
\* or invalid it records no definition and reports 'Invalid assignment
\* expression'.
C5_AssignmentTargets ==
    (pc = "parseLabel" /\ IsTarget(par) /\ IsOperator(par, 1, <<"=">>)
        /\ ~(\E i \in 1..Len(par.lex.tokens) : TokenAt(par, i).type = "Keyword"))
    => /\ ExpressionToEnd(par, 2)
              => /\ isDone(par)
                 /\ par.diagnostics = <<>>
                 /\ par.symbolDefinitions
                        = IF TokenAt(par, 0).type = "Name" THEN <<TokenAt(par, 0)>> ELSE <<>>
       /\ ~expectExpression([par EXCEPT !.pos = 2], 0).ok
              => /\ par.symbolDefinitions = <<>>
                 /\ \E d \in Range(par.diagnostics) :
                        d.message = "Invalid assignment expression"

\* C6: a line that is a label followed by a star-assignment with a valid
\* expression is parsed with zero diagnostics and with the label in
\* symbolDefinitions.
C6_LabelThenStarAssignment ==
    (returned /\ TokenAt(par, 0).type = "Name" /\ ~isLocalLabel(TokenAt(par, 0))
        /\ IsOperator(par, 1, <<"*">>) /\ IsOperator(par, 2, <<"=">>)
        /\ ExpressionToEnd(par, 3))
    => /\ mapped[lineNum].diagnostics = <<>>
       /\ TokenAt(par, 0) \in Range(mapped[lineNum].symbolDefinitions)

\* The operand of the opcode line p, the tokens from index 1 on, is a direct
\* expr, an expr `,` expr or an immediate `#` expr; a bracketed operand
\* `(` expr `)` or `[` expr `]` is itself an expression.
ValidOperand(p) ==
    LET e == expectExpression([p EXCEPT !.pos = 1], 0)
    IN  \/ ExpressionToEnd(p, 1)
        \/ e.ok /\ IsOperator(e.p, e.p.pos, <<",">>) /\ ExpressionToEnd(p, e.p.pos + 1)
        \/ IsOperator(p, 1, <<"#">>) /\ ExpressionToEnd(p, 2)

\* C7: every non-local Name in the operand expressions of an opcode line is
\* recorded in symbolUses under its name.
C7_OperandNamesAreUses ==
    (returned /\ TokenAt(par, 0).type = "Opcode" /\ ValidOperand(par))
    => \A i \in 1..(Len(par.lex.tokens) - 1) :
           (TokenAt(par, i).type = "Name" /\ ~isLocalLabel(TokenAt(par, i)))
           => TokenAt(par, i)
                  \in Range(MapGet(mapped[lineNum].symbolUses, TokenAt(par, i).normText))

\* The operand of the opcode line p fits no addressing mode: `#` without an
\* expression, `(` or `[` never closed, or a leading `,`.
InvalidOperand(p) ==
    \/ IsOperator(p, 1, <<"#">>) /\ ~expectExpression([p EXCEPT !.pos = 2], 0).ok
    \/ /\ IsOperator(p, 1, <<"(">>)
       /\ ~(\E i \in 2..Len(p.lex.tokens) : IsOperator(p, i, <<")">>))
    \/ /\ IsOperator(p, 1, <<"[">>)
       /\ ~(\E i \in 2..Len(p.lex.tokens) : IsOperator(p, i, <<"]">>))
    \/ IsOperator(p, 1, <<",">>)

\* The operand of the opcode line p is `(` expr `,` Name `)` with a Name
\* other than x, y and sp.
InvalidIndirectRegister(p) ==
    LET e == expectExpression([p EXCEPT !.pos = 2], 0)
        r == e.p.pos + 1
    IN  /\ IsOperator(p, 1, <<"(">>)
        /\ e.ok
        /\ IsOperator(p, r - 1, <<",">>)
        /\ TokenAt(p, r).type = "Name"
        /\ TokenAt(p, r).normText \notin {<<"x">>, <<"y">>, <<"s", "p">>}
        /\ IsOperator(p, r + 1, <<")">>)
        /\ r + 2 = Len(p.lex.tokens)

\* C8: after an Opcode token an operand that fits no addressing mode makes
\* parseOpcode report a diagnostic and consume the rest of the line; an
\* indirect operand with a register other than x, y and sp, as in
\* `lda ($7a,a)`, gives exactly one diagnostic, 'Invalid indirect index
\* register'.
C8_InvalidOperandReported ==
    (returned /\ TokenAt(par, 0).type = "Opcode")
    => /\ InvalidOperand(par) => (isDone(par) /\ mapped[lineNum].diagnostics # <<>>)
       /\ InvalidIndirectRegister(par)
              => /\ Len(mapped[lineNum].diagnostics) = 1
                 /\ mapped[lineNum].diagnostics[1].message
                        = "Invalid indirect index register"

\* The line of p begins with a non-local Name that is a label: its next
\* token is neither `(` nor `=`.
BeginsWithLabel(p) ==
    /\ TokenAt(p, 0).type = "Name"
    /\ ~isLocalLabel(TokenAt(p, 0))
    /\ ~IsOperator(p, 1, <<"(">>)
    /\ ~IsOperator(p, 1, <<"=">>)

\* A token after the first of p is one of the keywords that parseSoloTokens,
\* parseIfDirective and parseIfDefDirective look for anywhere on the line.
HasErrantKeyword(p) ==
    \E i \in 1..(Len(p.lex.tokens) - 1) :
        /\ TokenAt(p, i).type = "Keyword"
        /\ TokenAt(p, i).normText \in
               { <<"#","e","l","s","e">>, <<"#","e","n","d","i","f">>,
                 <<"e","n","d","m","a","c">>, <<"#","i","f">>,
                 <<"#","i","f","d","e","f">> }

\* C9 as the specification states it: whenever a line begins with a
\* non-local Name that is a label, parseLine records that Name in
\* symbolDefinitions, whatever the remainder of the line is.
C9_LabelAlwaysRecorded ==
    (returned /\ BeginsWithLabel(par))
    => TokenAt(par, 0) \in Range(mapped[lineNum].symbolDefinitions)

\* C9, amended: whenever a line begins with a non-local Name that is a label
\* and no later token of the line is one of the keywords #if, #ifdef, #else,
\* #endif and endmac, parseLine records that Name in symbolDefinitions, with
\* or without diagnostics for the remainder; when a later token is one of
\* these keywords the line is consumed before parseLabel runs and no
\* definition is recorded.
C9_LabelRecordedUnlessErrantKeyword ==
    (returned /\ BeginsWithLabel(par))
    => IF HasErrantKeyword(par)
       THEN mapped[lineNum].symbolDefinitions = <<>> /\ mapped[lineNum].diagnostics # <<>>
       ELSE mapped[lineNum].symbolDefinitions = <<TokenAt(par, 0)>>

\* A label is recorded on a line whose remainder produced a diagnostic.
C9_LabelRecordedWithDiagnostic ==
    /\ returned
    /\ BeginsWithLabel(par)
    /\ ~HasErrantKeyword(par)
    /\ Len(par.lex.tokens) > 1
    /\ mapped[lineNum].diagnostics # <<>>
    /\ TokenAt(par, 0) \in Range(mapped[lineNum].symbolDefinitions)

\* The tokens of p from index i on are expr {`,` expr} `)` and nothing else.
RECURSIVE ArgumentsToEnd(_, _)
ArgumentsToEnd(p, i) ==
    LET e == expectExpression([p EXCEPT !.pos = i], 0)
    IN  /\ e.ok
        /\ IF IsOperator(e.p, e.p.pos, <<",">>)
           THEN ArgumentsToEnd(p, e.p.pos + 1)
           ELSE IsOperator(e.p, e.p.pos, <<")">>) /\ e.p.pos + 1 = Len(p.lex.tokens)

\* The tokens of p from index i on are the call Name `(` [expr {`,` expr}] `)`
\* and nothing else.
WellFormedCall(p, i) ==
    /\ TokenAt(p, i).type = "Name"
    /\ IsOperator(p, i + 1, <<"(">>)
    /\ \/ IsOperator(p, i + 2, <<")">>) /\ i + 3 = Len(p.lex.tokens)
       \/ ArgumentsToEnd(p, i + 2)

\* C10: parseMacroUse adds a name to macroUses only if the call
\* Name `(` [expr {`,` expr}] `)` parsed with every argument a valid
\* expression, the closing `)` present and no token after it; when it records
\* a macro use the line has no diagnostic, and when it reports a diagnostic
\* (three of them on `foo(2 +)`) it records no macro use.
C10_MacroUseOnlyWhenWellFormed ==
    [][ParseMacroUse =>
        /\ par'.macroUses # EmptyMap
               => WellFormedCall(par, par.pos) /\ par'.diagnostics = <<>>
        /\ Len(par'.diagnostics) > Len(par.diagnostics) => par'.macroUses = EmptyMap
        /\ par.text = <<"f","o","o","(","2"," ","+",")">>
               => Len(par'.diagnostics) = 3 /\ par'.macroUses = EmptyMap]_vars

\* The token at index i of p is the keyword kw.
IsKeyword(p, i, kw) ==
    TokenAt(p, i).type = "Keyword" /\ TokenAt(p, i).normText = kw

\* The tokens of p from index i on are Name {`,` Name} `)` and nothing else.
RECURSIVE ParametersToEnd(_, _)
ParametersToEnd(p, i) ==
    /\ TokenAt(p, i).type = "Name"
    /\ IF IsOperator(p, i + 1, <<",">>)
       THEN ParametersToEnd(p, i + 2)
       ELSE IsOperator(p, i + 1, <<")">>) /\ i + 2 = Len(p.lex.tokens)

\* The line of p is the header `macro` Name `(` [Name {`,` Name}] `)`.
WellFormedHeader(p) ==
    /\ IsKeyword(p, 0, <<"m","a","c","r","o">>)
    /\ TokenAt(p, 1).type = "Name"
    /\ IsOperator(p, 2, <<"(">>)
    /\ \/ IsOperator(p, 3, <<")">>) /\ Len(p.lex.tokens) = 4
       \/ ParametersToEnd(p, 3)

\* C11: a line whose first token is the keyword macro is always fully
\* consumed by parseMacroDefinitionStart; the macro name is added to
\* macroDefinitions if and only if the header is
\* Name `(` [Name {`,` Name}] `)` followed by end of line, and otherwise no
\* macro definition is recorded and exactly one diagnostic is reported.
C11_MacroHeader ==
    (pc \in {"parseAssignment", "thrown"} /\ IsKeyword(par, 0, <<"m","a","c","r","o">>))
    => /\ pc # "thrown"
       /\ isDone(par)
       /\ IF WellFormedHeader(par)
          THEN par.macroDefinitions = <<TokenAt(par, 1)>> /\ par.diagnostics = <<>>
          ELSE par.macroDefinitions = <<>> /\ Len(par.diagnostics) = 1

\* The diagnostics of p are exactly one diagnostic, with this message.
OneDiagnostic(p, message) ==
    Len(p.diagnostics) = 1 /\ p.diagnostics[1].message = message

\* C12 as the specification states it: for each keyword k of #else, #endif,
\* endmac, parseSoloTokens consumes a line whose only token is k with zero
\* diagnostics, gives exactly one diagnostic 'Unexpected text after k' when
\* k is the first token and others follow, and exactly one diagnostic
\* 'Unexpected text before k' when k appears after other tokens, the cursor
\* ending at end of line; a line with none of the three keywords is left
\* with cursor and diagnostics unchanged.
C12_SoloKeywordOneDiagnostic ==
    pc = "parseIfDirective"
    => /\ \A i \in 1..3 :
            LET k == soloKeywords[i]
            IN  /\ (IsKeyword(par, 0, k.kw) /\ Len(par.lex.tokens) = 1)
                       => isDone(par) /\ par.diagnostics = <<>>
                /\ (IsKeyword(par, 0, k.kw) /\ Len(par.lex.tokens) > 1)
                       => isDone(par) /\ OneDiagnostic(par, k.after)
                /\ (\E j \in 1..(Len(par.lex.tokens) - 1) : IsKeyword(par, j, k.kw))
                       => isDone(par) /\ OneDiagnostic(par, k.before)
       /\ ~(\E i \in 1..3, j \in 0..(Len(par.lex.tokens) - 1) :
                IsKeyword(par, j, soloKeywords[i].kw))
              => par.pos = 0 /\ par.diagnostics = <<>>

\* The indices of the tokens of p that are #else, #endif or endmac.
SoloKeywordAt(p) ==
    {j \in 0..(Len(p.lex.tokens) - 1) : \E i \in 1..3 : IsKeyword(p, j, soloKeywords[i].kw)}

\* C12, amended: when exactly one token of the line is one of #else, #endif,
\* endmac, say k, parseSoloTokens consumes the line, with zero diagnostics
\* when k is the only token, with exactly one diagnostic 'Unexpected text
\* after k' when k is the first token and others follow, and with exactly
\* one diagnostic 'Unexpected text before k' when k comes after other
\* tokens.  When several tokens are such keywords the line is consumed with
\* one to three diagnostics, at most one for each of the three keywords.  A
\* line with none of them is left with cursor and diagnostics unchanged.
C12_SoloKeywordDiagnostics ==
    pc = "parseIfDirective"
    => /\ \A i \in 1..3, j \in 0..(Len(par.lex.tokens) - 1) :
            LET k == soloKeywords[i]
            IN  (IsKeyword(par, j, k.kw) /\ SoloKeywordAt(par) = {j})
                => /\ isDone(par)
                   /\ IF Len(par.lex.tokens) = 1 THEN par.diagnostics = <<>>
                      ELSE IF j = 0 THEN OneDiagnostic(par, k.after)
                      ELSE OneDiagnostic(par, k.before)
       /\ Cardinality(SoloKeywordAt(par)) > 1
              => /\ isDone(par)
                 /\ Len(par.diagnostics) \in 1..3
                 /\ \A a, b \in 1..Len(par.diagnostics) :
                        par.diagnostics[a].message = par.diagnostics[b].message => a = b
                 /\ \A a \in 1..Len(par.diagnostics) : \E i \in 1..3 :
                        par.diagnostics[a].message
                            \in {soloKeywords[i].after, soloKeywords[i].before}
       /\ SoloKeywordAt(par) = {} => par.pos = 0 /\ par.diagnostics = <<>>

\* parseSoloTokens has consumed a line on which its keyword comes after
\* another token, with the one diagnostic 'Unexpected text before'.
C12_TextBeforeSoloKeyword ==
    /\ pc = "parseIfDirective"
    /\ Cardinality(SoloKeywordAt(par)) = 1
    /\ ~(0 \in SoloKeywordAt(par))
    /\ isDone(par)
    /\ \E i \in 1..3 : OneDiagnostic(par, soloKeywords[i].before)

\* What C13 says of a consumed #ifdef line p.
IfDefOutcome(p) ==
    /\ isDone(p)
    /\ (Len(p.lex.tokens) = 2 /\ TokenAt(p, 1).type = "Name")
           => /\ p.diagnostics = <<>>
              /\ p.symbolUses
                     = IF isLocalLabel(TokenAt(p, 1)) THEN EmptyMap
                       ELSE MapSet(EmptyMap, TokenAt(p, 1).normText, <<TokenAt(p, 1)>>)
    /\ TokenAt(p, 1).type # "Name"
           => /\ OneDiagnostic(p, "Missing symbol for #ifdef")
              /\ p.diagnostics[1].range.start.character = TokenAt(p, 0).start
              /\ p.diagnostics[1].range.end.character = TokenAt(p, 0).start + 6
              /\ p.symbolUses = EmptyMap
    /\ (Len(p.lex.tokens) > 2 /\ TokenAt(p, 1).type = "Name")
           => OneDiagnostic(p, "Unexpected text after #ifdef")

HasEarlierErrantKeyword(p) ==
    \E i \in 1..(Len(p.lex.tokens) - 1) :
        \/ i \in SoloKeywordAt(p)
        \/ IsKeyword(p, i, <<"#","i","f">>)

SyntaxError(p) ==
    [severity |-> "Error",
     range |-> [start |-> [line |-> p.lineNumber, character |-> TokenAt(p, 0).start],
                end   |-> [line |-> p.lineNumber, character |-> TokenAt(p, 0).end]],
     message |-> "Syntax error"]

\* C14: parseLine adds the generic 'Syntax error' diagnostic exactly when
\* the statement shapes, tried in their fixed order, leave the cursor before
\* end of line; it is then added once, with the range of the first token of
\* the line, and it is never added when some shape consumed the whole line
\* or when the line has no tokens.
C14_GenericSyntaxError ==
    [][ReturnResult =>
        /\ \A d \in Range(par.diagnostics) : d.message # "Syntax error"
        /\ mapped'[lineNum].diagnostics
               = IF par.pos < Len(par.lex.tokens)
                 THEN Append(par.diagnostics, SyntaxError(par))
                 ELSE par.diagnostics
        /\ Len(par.lex.tokens) = 0 => mapped'[lineNum].diagnostics = <<>>]_vars

\* parseLine has returned the generic diagnostic for a line that no shape
\* consumed.
C14_SyntaxErrorAdded ==
    /\ returned
    /\ par.pos < Len(par.lex.tokens)
    /\ Len(par.lex.tokens) > 1
    /\ mapped[lineNum].diagnostics = <<SyntaxError(par)>>

\* lexLine has returned: lexer holds the tokens and the diagnostics.
lexReturned == pc = "lexReturn"

\* The diagnostics of the Lexer lx with this severity.
DiagnosticsOf(lx, severity) ==
    {i \in 1..Len(lx.diagnostics) : lx.diagnostics[i].severity = severity}

\* C15: lexLine emits the lexical Error 'Syntax error' only at a non-blank
\* position before end of line, where lexing stops: no token starts at or
\* after that position and a line has at most one lexical Error; a line
\* without a lexical Error has been lexed to its end, and a line whose text
\* is covered by tokens has none, whether or not whitespace follows the last
\* token.
C15_LexicalErrorAtNonBlank ==
    lexReturned
    => /\ Cardinality(DiagnosticsOf(lexer, "Error")) <= 1
       /\ \A i \in DiagnosticsOf(lexer, "Error") :
              LET at == lexer.diagnostics[i].range.start.character
              IN  /\ lexer.diagnostics[i].message = "Syntax error"
                  /\ at < Len(lexer.text)
                  /\ CharAt(lexer.text, at) \notin SpaceChars
                  /\ \A t \in Range(lexer.tokens) : t.start < at
       /\ DiagnosticsOf(lexer, "Error") = {} => lexer.end = Len(lexer.text)

\* The position at which lexLine stopped lexing the line of lx: that of its
\* Error, or the end of the line.
HaltedAt(lx) ==
    IF DiagnosticsOf(lx, "Error") = {} THEN Len(lx.text)
    ELSE lx.diagnostics[MinOf(DiagnosticsOf(lx, "Error"))].range.start.character

\* The character at offset k of the line of lx is inside a token.
InToken(lx, k) == \E t \in Range(lx.tokens) : t.start <= k /\ k < t.end

\* The offset at which the comment of the line of lx starts, if it has one:
\* the first `;` outside the tokens, or the `*` of a star comment.
CommentStarts(lx) ==
    {k \in 0..(Len(lx.text) - 1) :
        /\ ~InToken(lx, k)
        /\ \/ CharAt(lx.text, k) = ";"
           \/ /\ lx.tokens = <<>>
              /\ starCommentPattern(lx.text)
              /\ k = RunLen(lx.text, 0, SpaceChars)}

\* C16: the tokens that lexLine returns satisfy 0 <= start <= end <=
\* line.length, are in left-to-right order without overlap, and together
\* with the skipped whitespace and the comment cover the line up to the
\* position where lexing halted on an error or up to the end of the line.
C16_TokensTileTheLine ==
    lexReturned
    => /\ \A i \in 1..Len(lexer.tokens) :
              /\ 0 <= lexer.tokens[i].start
              /\ lexer.tokens[i].start <= lexer.tokens[i].end
              /\ lexer.tokens[i].end <= Len(lexer.text)
       /\ \A i \in 1..(Len(lexer.tokens) - 1) :
              lexer.tokens[i].end <= lexer.tokens[i + 1].start
       /\ \A k \in 0..(HaltedAt(lexer) - 1) :
              \/ InToken(lexer, k)
              \/ CharAt(lexer.text, k) \in SpaceChars
              \/ \E c \in CommentStarts(lexer) : c <= k

\* C17: a string literal that is not closed before the end of the line
\* gives exactly one Warning and no other diagnostic, and the last token of
\* the line is the String token, from its opening quote to line.length;
\* this holds also when the last character of the line is a backslash.
C17_UnterminatedString ==
    lexReturned /\ DiagnosticsOf(lexer, "Warning") # {}
    => /\ Len(lexer.diagnostics) = 1
       /\ lexer.tokens # <<>>
       /\ LET t == lexer.tokens[Len(lexer.tokens)]
          IN  /\ t.type = "LiteralString"
              /\ CharAt(lexer.text, t.start) \in {"'", "\""}
              /\ t.end = Len(lexer.text)

\* The offset of the first non-blank character of the line.
FirstNonBlank(text) == RunLen(text, 0, SpaceChars)

\* The first non-blank character of the line is `*`.
StarFirst(text) == CharAt(text, FirstNonBlank(text)) = "*"

\* The leading `*` is followed by optional whitespace and then `=`.
StarAssigned(text) ==
    LET after == FirstNonBlank(text) + 1
    IN  CharAt(text, after + RunLen(text, after, SpaceChars)) = "="

\* The character at offset k is inside a string or a rest-of-line token.
InOpaqueToken(lx, k) ==
    \E t \in Range(lx.tokens) :
        t.type \in {"LiteralString", "RestOfLine"} /\ t.start <= k /\ k < t.end

\* C18: lexLine returns no token and no diagnostic for a line whose first
\* non-blank character is `*`, unless optional whitespace and `=` follow
\* that `*`: then the first token is the one for that `*`.  On a line that
\* is not such a comment every `*` that lexing reaches outside a string, a
\* rest-of-line token and a `;` comment is a token of its own.
C18_StarComment ==
    lexReturned
    => LET text == lexer.text
           s    == FirstNonBlank(text)
       IN  /\ StarFirst(text) /\ ~StarAssigned(text)
              => lexer.tokens = <<>> /\ lexer.diagnostics = <<>>
           /\ StarFirst(text) /\ StarAssigned(text)
              => /\ lexer.tokens # <<>>
                 /\ lexer.tokens[1].start = s
                 /\ lexer.tokens[1].end = s + 1
                 /\ lexer.tokens[1].normText = <<"*">>
           /\ ~(StarFirst(text) /\ ~StarAssigned(text))
              => \A k \in 0..(HaltedAt(lexer) - 1) :
                    /\ CharAt(text, k) = "*"
                    /\ ~InOpaqueToken(lexer, k)
                    /\ ~\E c \in 0..k : CharAt(text, c) = ";" /\ ~InToken(lexer, c)
                    => \E t \in Range(lexer.tokens) :
                          t.start = k /\ t.end = k + 1 /\ t.normText = <<"*">>

\* A star comment with text after the `*` has been lexed.
C18_StarCommentLexed ==
    /\ lexReturned
    /\ StarFirst(lexer.text) /\ ~StarAssigned(lexer.text)
    /\ \E k \in (FirstNonBlank(lexer.text) + 1)..(Len(lexer.text) - 1) :
           CharAt(lexer.text, k) \notin SpaceChars
    /\ lexer.tokens = <<>> /\ lexer.diagnostics = <<>>

\* The token is the Keyword .bhex or #error.
IsRestOfLineKeyword(t) ==
    /\ t.type = "Keyword"
    /\ t.normText \in {<<".","b","h","e","x">>, <<"#","e","r","r","o","r">>}

\* C19: once lexKeyword has matched .bhex or #error, in any letter case,
\* the token list ends with that Keyword token and one RestOfLine token from
\* the end of the keyword to line.length, and lexing of the line is done;
\* a RestOfLine token only ever follows one of these two keywords.
C19_RestOfLine ==
    \A i \in 1..Len(lexer.tokens) :
        /\ IsRestOfLineKeyword(lexer.tokens[i])
           => /\ i = Len(lexer.tokens) - 1
              /\ lexer.tokens[i + 1].type = "RestOfLine"
              /\ lexer.tokens[i + 1].start = lexer.tokens[i].end
              /\ lexer.tokens[i + 1].end = Len(lexer.text)
              /\ lexIsDone(lexer)
              /\ lexReturned
        /\ lexer.tokens[i].type = "RestOfLine"
           => i > 1 /\ IsRestOfLineKeyword(lexer.tokens[i - 1])

\* A line with .bhex or #error whose remainder holds a `;` has been lexed.
C19_RestOfLineHoldsComment ==
    /\ lexReturned
    /\ Len(lexer.tokens) >= 2
    /\ LET t == lexer.tokens[Len(lexer.tokens)]
       IN  /\ t.type = "RestOfLine"
           /\ IsRestOfLineKeyword(lexer.tokens[Len(lexer.tokens) - 1])
           /\ \E k \in t.start..(t.end - 1) : CharAt(lexer.text, k) = ";"

\* C20: every iteration of the loop of lexLine strictly advances the cursor
\* or ends the loop, and lexLine returns its tokens and diagnostics on
\* every line.
C20_LexLineTerminates ==
    /\ [][pc = "lexLoop" => (lexer'.end > lexer.end \/ pc' = "lexReturn")]_vars
    /\ <>lexReturned

\* lexLine has returned after more than one iteration of its loop.
C20_ReturnedAfterIterations ==
    /\ lexReturned
    /\ Len(lexer.tokens) >= 2
    /\ lexer.tokens[1].end < lexer.tokens[2].end
    /\ lexer.tokens[2].type \notin {"RestOfLine"}

\* The result of lexing the text of the token t of the line of lx on its own.
Relexed(lx, t) == lexLine(Substring(lx.text, t.start, t.end), 0)

\* C21: lexing the substring line[t.start, t.end) of a token t that lexLine
\* returned yields exactly one token, of the type and with the normText
\* of t, for every kind of token.
C21_RelexReproducesToken ==
    lexReturned
    => \A t \in Range(lexer.tokens) :
           /\ Len(Relexed(lexer, t).tokens) = 1
           /\ Relexed(lexer, t).tokens[1].type = t.type
           /\ Relexed(lexer, t).tokens[1].normText = t.normText

\* parseBsa has returned: results is the merged ParserResult.
parsed == pc = "done"

\* The token t is one that lexLine produced for the line numbered
\* t.lineNumber of the document.
TokenOfItsLine(t) ==
    /\ t.lineNumber \in 0..(Len(lines) - 1)
    /\ t \in Range(lexLine(lines[t.lineNumber + 1], t.lineNumber).tokens)

\* The diagnostic d is one that parseLine returned for the line numbered
\* d.range.start.line of the document.
DiagnosticOfItsLine(d) ==
    /\ d.range.start.line \in 0..(Len(lines) - 1)
    /\ d.range.end.line = d.range.start.line
    /\ d \in Range(mapped[d.range.start.line + 1].diagnostics)

\* The tokens stored in the use table uses.
UseTokens(uses) == UNION {Range(uses[k]) : k \in DOMAIN uses}

\* C22: parseBsa numbers the lines of text.split('\n') from 0 in order:
\* every token and every diagnostic of the merged result carries the index
\* of the line it came from, and diagnostics, symbolDefinitions and
\* macroDefinitions are each in non-decreasing line order.
C22_LineNumbers ==
    parsed
    => /\ \A d \in Range(results.diagnostics) : DiagnosticOfItsLine(d)
       /\ \A t \in Range(results.symbolDefinitions) \cup Range(results.macroDefinitions)
                   \cup UseTokens(results.symbolUses) \cup UseTokens(results.macroUses) :
              TokenOfItsLine(t)
       /\ \A i \in 1..(Len(results.diagnostics) - 1) :
              results.diagnostics[i].range.start.line
                  <= results.diagnostics[i + 1].range.start.line
       /\ \A i \in 1..(Len(results.symbolDefinitions) - 1) :
              results.symbolDefinitions[i].lineNumber
                  <= results.symbolDefinitions[i + 1].lineNumber
       /\ \A i \in 1..(Len(results.macroDefinitions) - 1) :
              results.macroDefinitions[i].lineNumber
                  <= results.macroDefinitions[i + 1].lineNumber

\* A document has been parsed whose merged result holds diagnostics and
\* symbol definitions of different lines.
C22_SeveralLinesMerged ==
    /\ parsed
    /\ \E i, j \in 1..Len(results.diagnostics) :
           results.diagnostics[i].range.start.line
               < results.diagnostics[j].range.start.line
    /\ \E i, j \in 1..Len(results.symbolDefinitions) :
           results.symbolDefinitions[i].lineNumber
               < results.symbolDefinitions[j].lineNumber

\* expectExpression has returned from the call recorded in call.
expressionReturned == pc = "expressionReturn"

\* The token at index i of p is a Number or a Name.
IsTerm(p, i) == TokenAt(p, i).type \in {"LiteralNumber", "Name"}

\* The text is a comparison: a term, one of < > <= >=, and a term.
IsComparison(p) ==
    /\ Len(p.lex.tokens) = 3
    /\ IsTerm(p, 0)
    /\ TokenAt(p, 1).type = "Operator"
    /\ TokenAt(p, 1).normText \in {<<"<">>, <<">">>, <<"<","=">>, <<">","=">>}
    /\ IsTerm(p, 2)

\* C24: < > <= >= are binary operators: expectExpression(0) on a term, one
\* of these operators and a term returns true, has consumed the three
\* tokens and added no diagnostic, and the line `#if` followed by that
\* comparison has no diagnostic.
C24_ComparisonOperators ==
    expressionReturned /\ call.pos = 0 /\ call.priority = 0 /\ IsComparison(par)
    => /\ call.ok
       /\ par.pos = 3
       /\ par.diagnostics = <<>>
       /\ ~parseLine(<<"#","i","f"," ">> \o bodyText, 0).thrown
       /\ parseLine(<<"#","i","f"," ">> \o bodyText, 0).diagnostics = <<>>

\* The token at index i of p is a String literal holding one character.
IsCharacterLiteral(p, i) ==
    /\ i < Len(p.lex.tokens)
    /\ TokenAt(p, i).type = "LiteralString"
    /\ TokenAt(p, i).normText # Undefined
    /\ Len(TokenAt(p, i).normText) = 1

\* C25: expectExpression accepts a String literal token that holds exactly
\* one character, an escaped one included, as a term: called on such a
\* token that ends the text it returns true, has consumed the token and
\* added no diagnostic.
C25_CharacterLiteralIsTerm ==
    /\ expressionReturned
    /\ IsCharacterLiteral(par, call.pos)
    /\ call.pos = Len(par.lex.tokens) - 1
    => /\ call.ok
       /\ par.pos = call.pos + 1
       /\ par.diagnostics = <<>>

\* The token at index i of p is the binary operator of a priority in P.
IsBinaryOperatorOf(p, i, P) ==
    /\ i < Len(p.lex.tokens)
    /\ TokenAt(p, i).type = "Operator"
    /\ TokenAt(p, i).normText \in binaryOperators
    /\ binaryOperatorPriorites[TokenAt(p, i).normText] \in P

\* The tokens of p are term (op term)* with op one of + - * /, a term
\* being a Number, a Name or the program counter `*`.
IsAlternating(p) ==
    /\ Len(p.lex.tokens) % 2 = 1
    /\ \A i \in 0..(Len(p.lex.tokens) - 1) :
           IF i % 2 = 0
           THEN IsTerm(p, i) \/ IsOperator(p, i, <<"*">>)
           ELSE \E op \in {<<"+">>, <<"-">>, <<"*">>, <<"/">>} : IsOperator(p, i, op)

\* The Parser on which the call recorded in call was made.
Called == [startParse(Parser(bodyText, 0)) EXCEPT !.pos = call.pos]

\* C26: after a term, expectExpression(minPriority) returns true without
\* consuming the next token when that is a binary operator of priority
\* <= minPriority; a binary operator of higher priority is folded, its
\* right operand parsed with the operator's own priority; and
\* expectExpression(0) on term (op term)* with op in + - * / returns true,
\* has consumed the whole text and added no diagnostic.
C26_PrecedenceClimbing ==
    expressionReturned
    => /\ IsTerm(par, call.pos)
          /\ IsBinaryOperatorOf(par, call.pos + 1, 0..call.priority)
          => call.ok /\ par.pos = call.pos + 1 /\ par.diagnostics = <<>>
       /\ IsTerm(par, call.pos)
          /\ IsBinaryOperatorOf(par, call.pos + 1, (call.priority + 1)..12)
          => LET operand == expectExpression(
                     [Called EXCEPT !.pos = call.pos + 2],
                     binaryOperatorPriorites[TokenAt(par, call.pos + 1).normText])
             IN  IF operand.ok
                 THEN par.pos >= operand.p.pos
                 ELSE ~call.ok /\ par.pos = operand.p.pos
       /\ call.pos = 0 /\ call.priority = 0 /\ IsAlternating(par)
          => call.ok /\ par.pos = Len(par.lex.tokens) /\ par.diagnostics = <<>>

\* A product followed by a sum has been parsed: the call for the right
\* operand of `*` has returned at the `+`.
C26_OperandEndsAtLowerOperator ==
    /\ expressionReturned
    /\ call.priority = 11
    /\ call.pos = 2
    /\ IsTerm(par, 0)
    /\ IsOperator(par, 1, <<"*">>)
    /\ IsTerm(par, call.pos)
    /\ IsOperator(par, call.pos + 1, <<"+">>)
    /\ IsTerm(par, call.pos + 2)
    /\ call.ok /\ par.pos = call.pos + 1

\* The closing bracket for the opening bracket at index i of p.
Closer(p, i) == IF IsOperator(p, i, <<"(">>) THEN <<")">> ELSE <<"]">>

\* The call recorded in call was made on an opening bracket that is
\* followed by a sub-expression; Inside is what expectExpression(0)
\* returns for that sub-expression.
Inside == expectExpression([Called EXCEPT !.pos = call.pos + 1], 0)

OnBracket ==
    /\ IsOperator(par, call.pos, <<"(">>) \/ IsOperator(par, call.pos, <<"[">>)
    /\ Inside.ok

\* C27: a sub-expression opened with ( must be closed with ) and one opened
\* with [ with ]: with the matching closer, and nothing to fold after it,
\* expectExpression returns true past the closer, adds no diagnostic and
\* has recorded the symbol uses inside the brackets; when the closer is
\* missing or of the other kind it returns false and adds exactly one
\* diagnostic, which names the closer expected.
C27_Brackets ==
    expressionReturned /\ OnBracket
    => IF IsOperator(par, Inside.p.pos, Closer(par, call.pos))
       THEN ~IsBinaryOperatorOf(par, Inside.p.pos + 1, 0..12)
            => /\ call.ok
               /\ par.pos = Inside.p.pos + 1
               /\ par.diagnostics = <<>>
               /\ par.symbolUses = Inside.p.symbolUses
       ELSE /\ ~call.ok
            /\ Len(par.diagnostics) = 1
            /\ par.diagnostics[1].message =
                   (IF Closer(par, call.pos) = <<")">>
                    THEN "Expected closing bracket: )"
                    ELSE "Expected closing bracket: ]")

\* A sub-expression with a symbol in it was closed by a bracket of the
\* other kind.
C27_WrongCloserReported ==
    /\ expressionReturned /\ OnBracket
    /\ TokenAt(par, Inside.p.pos).type = "Operator"
    /\ TokenAt(par, Inside.p.pos).normText \in {<<")">>, <<"]">>} \ {Closer(par, call.pos)}
    /\ DOMAIN Inside.p.symbolUses # {}
    /\ ~call.ok
    /\ Len(par.diagnostics) = 1

\* C29: expectExpression adds diagnostics only on calls that return false:
\* a call that returns true, at any nesting depth, has advanced the cursor
\* by at least one token, has left it within [0, tokens.length], and has
\* left the diagnostics as they were when the call began.
C29_TrueAddsNoDiagnostic ==
    expressionReturned /\ call.ok
    => /\ par.pos >= call.pos + 1
       /\ par.pos <= Len(par.lex.tokens)
       /\ par.diagnostics = Called.diagnostics

\* A nested call, for the right operand of `+`, has returned true after
\* folding a product.
C29_NestedCallReturnedTrue ==
    /\ expressionReturned /\ call.ok
    /\ call.pos = 2 /\ call.priority = 10
    /\ IsTerm(par, 0) /\ IsOperator(par, 1, <<"+">>)
    /\ par.pos = 5

\* The statement-shape steps of parseLine, in the order of the chain.
ShapeSteps ==
    {"parseSoloTokens", "parseIfDirective", "parseIfDefDirective",
     "handleUnrecognizedHashDirective", "parseMacroDefinitionStart",
     "parseAssignment", "parseLabel", "parseMacroUse", "parsePseudoOp", "parseOpcode"}

\* The step from p to q left the cursor, the diagnostics and the tables
\* as they were.
Untouched(p, q) ==
    /\ ~q.thrown
    /\ q.pos = p.pos
    /\ q.diagnostics = p.diagnostics
    /\ q.symbolDefinitions = p.symbolDefinitions
    /\ q.symbolUses = p.symbolUses
    /\ q.macroDefinitions = p.macroDefinitions
    /\ q.macroUses = p.macroUses

\* C28: every statement-shape step of parseLine other than the label step
\* either leaves the cursor where it was, adding no diagnostic and no
\* table entry, or advances the cursor to the end of the line; and once
\* the cursor is at the end of the line every later step leaves cursor,
\* diagnostics and tables unchanged.
C28_ConsumeAllOrNothing ==
    [][/\ pc \in ShapeSteps \ {"parseLabel"}
          => \/ Untouched(par, par')
             \/ ~par'.thrown /\ par'.pos = Len(par'.lex.tokens)
       /\ pc \in ShapeSteps /\ isDone(par)
          => Untouched(par, par')]_vars


\* The answer to a references or highlight request that lists the tokens
\* uses.
ReferencesAnswer(request, uses) ==
    Answer([i \in 1..Len(uses) |->
        IF request.method = "references"
        THEN [uri |-> request.uri, range |-> TokenRange(uses[i])]
        ELSE [range |-> TokenRange(uses[i])]])

\* The tokens recorded in the table uses that hold the position of the
\* request.
UsesAt(uses, request) ==
    {t \in UseTokens(uses) : /\ t.lineNumber = request.line
                             /\ t.start <= request.character
                             /\ request.character <= t.end}

\* The step is the answer to a references or highlight request for a
\* document with a stored parse result.
ReferencesAnswered ==
    /\ response' # response
    /\ response'[1].method \in {"references", "documentHighlight"}
    /\ Stored(response'[1].uri)

\* C23: a references request or a highlight request at a position inside a
\* recorded use token returns every entry stored under the name of the
\* token: all of symbolUses[name] when the token is a symbol use, and all
\* of macroUses[name] when it is a macro use that is not also a symbol use.
C23_ReferencesReturnAllUses ==
    [][ReferencesAnswered =>
        LET request == response'[1]
            parseResult == StoredResult(request.uri)
        IN  /\ \A t \in UsesAt(parseResult.symbolUses, request) :
                   request.result =
                       ReferencesAnswer(request, parseResult.symbolUses[t.normText])
            /\ UsesAt(parseResult.symbolUses, request) = {} =>
                   \A t \in UsesAt(parseResult.macroUses, request) :
                       request.result =
                           ReferencesAnswer(request, parseResult.macroUses[t.normText])]_vars

\* The step is a content change of the document uri: a new text, or the
\* same text validated again.
ChangeOf(uri) ==
    /\ response' = response
    /\ documents'[uri] # Undefined
    /\ \/ documents'[uri] # documents[uri]
       \/ documents' = documents /\ sent' # sent /\ sent'[1].uri = uri

\* C30: for every document URI and every sequence of content changes and
\* closes, the stored parse result is the one computed from the most
\* recent content change if no close came after it and is absent
\* otherwise; the diagnostics published for a change are exactly those of
\* the parse result of that change; and a definition, references,
\* document-symbol or highlight request answers null whenever no parse
\* result is stored for the URI.
C30_StoredResultFollowsEvents ==
    [][/\ \A uri \in Uris :
            IF documents'[uri] = Undefined
            THEN documentParseResults'[uri] = <<>>
            ELSE /\ documentParseResults'[uri] # <<>>
                 /\ documentParseResults'[uri] = parseResults[documents'[uri]]
       /\ \A uri \in Uris :
            ChangeOf(uri) /\ sent' # sent =>
                /\ parseResults[documents'[uri]] # <<>>
                /\ sent' = <<[uri |-> uri,
                              diagnostics |->
                                  parseResults[documents'[uri]][1].diagnostics]>>
       /\ response' # response /\ documentParseResults'[response'[1].uri] = <<>>
              => response'[1].result = Null]_vars

====
